---- MODULE Spec2Model ----
(***************************************************************************)
(* Model of the backup / verify / restore engine of macos-backup-tauri     *)
(* (src-tauri/src/lib.rs).                                                  *)
(*                                                                          *)
(* Paths and file names are sequences of one-character strings, so that    *)
(* file_name(), to_lowercase() and replace() are computed, not assumed.    *)
(* File contents are tags; hash_file is an injective map from contents to  *)
(* 64-digit hex strings (sequences of digits 0..15).                       *)
(***************************************************************************)
EXTENDS Naturals, Integers, Sequences, FiniteSets, TLC

(***************************************************************************)
(* Bounds of the model.                                                     *)
(***************************************************************************)
MaxDirs == 2
MaxRuns == 1
MaxCancels == 1
MaxTime == 1
MaxVerifies == 2
MaxTampers == 1
MaxItems == 5
MaxFailing == 2
ShortLen == 8
MaxRestores == 1
MaxSel == 2
MaxOld == 2
MaxDeletes == 2
MaxLater == 1
MaxOverlap == 2
MaxExts == 7
MaxBatched == 1
MaxExtracts == 2
MaxApps == 6
MaxMasRuns == 1

(***************************************************************************)
(* Program constants.                                                       *)
(***************************************************************************)
DigestLen == 64
HashPrefix == 16
PARALLEL_VERIFY == 4
MAX_PARALLEL_VSCODE == 6
MAX_PARALLEL_MAS == 4

Procs == {1}

(***************************************************************************)
(* Characters and strings.                                                  *)
(***************************************************************************)
Str_tar_zst == <<"t", "a", "r", ".", "z", "s", "t">>
Str_tar_gz == <<"t", "a", "r", ".", "g", "z">>
Str_homebrew_packages ==
    <<"h","o","m","e","b","r","e","w","-","p","a","c","k","a","g","e","s">>
Str_mas_apps == <<"m","a","s","-","a","p","p","s">>
Str_vscode_extensions ==
    <<"v","s","c","o","d","e","-","e","x","t","e","n","s","i","o","n","s">>
Str_homebrew_cache == <<"h","o","m","e","b","r","e","w","-","c","a","c","h","e">>
Str_safari_settings ==
    <<"s","a","f","a","r","i","-","s","e","t","t","i","n","g","s">>
Str_backup == <<"b","a","c","k","u","p">>

\* char::to_lowercase on the letters the model uses
LowerChar(c) ==
    CASE c = "A" -> "a" [] c = "B" -> "b" [] c = "D" -> "d" [] c = "M" -> "m"
      [] c = "H" -> "h" [] c = "P" -> "p" [] OTHER -> c

\* str::to_lowercase
to_lowercase(s) == [k \in 1..Len(s) |-> LowerChar(s[k])]

\* str::replace(from, to) for single characters
replace(s, from, to) == [k \in 1..Len(s) |-> IF s[k] = from THEN to ELSE s[k]]

\* index of the last "/" of a path, 0 when there is none
LastSlash(s) ==
    LET I == {k \in 1..Len(s) : s[k] = "/"}
    IN  IF I = {} THEN 0 ELSE CHOOSE k \in I : \A j \in I : j <= k

\* Path::file_name, with the caller's default "backup" when there is none
file_name(s) ==
    LET k == LastSlash(s)
    IN  IF k = Len(s) THEN Str_backup ELSE SubSeq(s, k + 1, Len(s))

home_dir == <<"/", "h">>

\* the "~" expansion of create_backup
Expand(dir) ==
    IF Len(dir) >= 2 /\ dir[1] = "~" /\ dir[2] = "/"
    THEN home_dir \o <<"/">> \o SubSeq(dir, 3, Len(dir))
    ELSE IF dir = <<"~">> THEN home_dir ELSE dir

(***************************************************************************)
(* The host's source tree: the paths a configuration may name.             *)
(***************************************************************************)
Path_aDoc == <<"/", "a", "/", "D", "o", "c">>
Path_bdoc == <<"/", "b", "/", "d", "o", "c">>
Path_note == <<"~", "/", "n", ".", "t">>
Path_gone == <<"/", "g", "o", "n", "e">>
ConfigPaths == {Path_aDoc, Path_bdoc, Path_note, Path_gone}

\* "dir", "file" or "none" (Path::exists / Path::is_file)
SourceKind(expanded) ==
    CASE expanded = Path_aDoc -> "dir"
      [] expanded = Path_bdoc -> "dir"
      [] expanded = Expand(Path_note) -> "file"
      [] OTHER -> "none"

\* fs::metadata().len() of a file, compute_directory_size of a directory
SourceSize(expanded) ==
    CASE expanded = Path_aDoc -> 3
      [] expanded = Path_bdoc -> 0
      [] expanded = Expand(Path_note) -> 2
      [] OTHER -> 0

(***************************************************************************)
(* File contents (bytes) and digests.  A file's content is a tag; EIO marks *)
(* a path that exists but cannot be read.                                   *)
(***************************************************************************)
EIO == "EIO"
AllBytes ==
    {"partial", "tar:/a/Doc", "tar:/b/doc", "gz:~/n.t", "gz:brew", "gz:mas",
     "gz:vscode", "tar:cache", "tar:safari", "tampered"}

\* the archive the archiver writes for a source when it runs to completion
ArchiveBytes(expanded) ==
    CASE expanded = Path_aDoc -> "tar:/a/Doc"
      [] expanded = Path_bdoc -> "tar:/b/doc"
      [] expanded = Expand(Path_note) -> "gz:~/n.t"
      [] expanded = Str_homebrew_cache -> "tar:cache"
      [] expanded = Str_safari_settings -> "tar:safari"
      [] OTHER -> "partial"

\* the content of a file as a number (its bytes read as a numeral)
ByteCode(bytes) ==
    CASE bytes = "partial" -> 0
      [] bytes = "tar:/a/Doc" -> 1
      [] bytes = "tar:/b/doc" -> 2
      [] bytes = "gz:~/n.t" -> 3
      [] bytes = "gz:brew" -> 4
      [] bytes = "gz:mas" -> 5
      [] bytes = "gz:vscode" -> 6
      [] bytes = "tar:cache" -> 7
      [] bytes = "tar:safari" -> 8
      [] OTHER -> 9

\* format!("{:x}", Sha256(bytes)): DigestLen hex digits, distinct for distinct bytes
Digest(bytes) == [k \in 1..DigestLen |-> (ByteCode(bytes) + 3 * k) % 16]

(***************************************************************************)
(* Directories of files: a function from the names present to contents.    *)
(***************************************************************************)
NoFiles == [n \in {} |-> "partial"]
WriteFile(f, name, bytes) ==
    [n \in (DOMAIN f) \cup {name} |-> IF n = name THEN bytes ELSE f[n]]
\* fs::remove_file, its error ignored
RemoveFile(f, name) == [n \in (DOMAIN f) \ {name} |-> f[n]]
\* Path::exists
FileExists(f, name) == name \in DOMAIN f

\* fs::metadata(path).map(|m| m.len()).unwrap_or(0)
FileLen(f, name) == IF FileExists(f, name) THEN ByteCode(f[name]) + 1 ELSE 0

Err(e) == [ok |-> FALSE, val |-> e]
Ok(v) == [ok |-> TRUE, val |-> v]

\* hash_file: an error when the file cannot be opened or read
hash_file(f, name) ==
    IF FileExists(f, name) /\ f[name] # EIO
    THEN Ok(Digest(f[name]))
    ELSE Err("io")

(***************************************************************************)
(* State.                                                                   *)
(***************************************************************************)
\* the timestamps of this session, in seconds from the start of the application
Times == 1..MaxTime
\* the timestamps a run directory may have: the runs of earlier sessions have
\* the timestamps up to 0
Stamps == (1 - MaxOld)..MaxTime
NoManifest == [none |-> TRUE]
NoLatest == <<>>

VARIABLES
    BACKUP_CANCELLED,   \* static AtomicBool
    TAR_PID,            \* static AtomicU32, 0 = none
    bk,                 \* per create_backup invocation: its locals and position
                        \* (meta0: the metadata.json its run directory held at the start)
                        \* (cancels0: the calls of cancel_backup made before its start)
                        \* (untracked: a call of cancel_backup found no id tracked while
                        \* the invocation was in its directory loop)
    child,              \* per invocation: the archiver process create_tar_gz spawned
    next_pid,           \* the process id the next spawn gets
    cn,                 \* the cancel_backup invocation: its position and locals
    kill_log,           \* the signals cancel_backup has sent
    now,                \* the wall clock, in seconds, as last read
    nruns,              \* create_backup invocations so far
    data_dirs,          \* timestamps whose data/<timestamp>/ directory exists
    files,              \* files[ts]: the archive files of data/<ts>/
    metadata,           \* metadata[ts]: data/<ts>/metadata.json
    latest,             \* latest.json: <<timestamp>>, NoLatest when absent
    inv_dirs,           \* timestamps whose inventories/<timestamp>/ exists
    tmp_files,          \* names present in the temp directory
    tampered,           \* the archive files changed from outside, in order: [ts, name]
    vlog,               \* the results verify_backup / verify_backup_parallel returned
    pv,                 \* the verify_backup_parallel invocation: position and locals
    rs,                 \* the restore_items invocation: position, locals and result
    qr,                 \* the quick_restore_essentials invocation, likewise
    host,               \* the files and directories of the machine, by path
    ext_log,            \* the extractor runs extract_tar_gz has started, in order
    installed,          \* what the package tools and the reserved restores installed
    brewfile,           \* the lines of the package list the inventory archive holds
    dl,                 \* the delete_backup invocations: their number, the last one's
                        \* timestamp and result
    vx,                 \* the restore_vscode_extensions invocation: position and locals
    ex,                 \* the extract_tar_gz invocation: position, locals and the
                        \* extractor processes it ran, in order
    ms,                 \* the restore_mas_apps invocation: position and locals, and the
                        \* installer script it opened
    progress_log        \* the "backup-progress" notifications the last verify_backup
                        \* emitted, in order

vfvars == <<tampered, vlog, pv>>
rsvars == <<rs, qr, host, ext_log, installed, brewfile>>

\* what create_backup and cancel_backup never touch (delete_backup's record too)
\* the invocations of extract_tar_gz and restore_mas_apps, and the
\* notifications of verify_backup
mxvars == <<ex, ms, progress_log>>

xvars == <<vfvars, rsvars, dl, vx, mxvars>>

vars ==
    <<BACKUP_CANCELLED, TAR_PID, bk, child, next_pid, cn, kill_log, now, nruns,
      data_dirs, files, metadata, latest, inv_dirs, tmp_files, xvars>>

fsvars == <<data_dirs, files, metadata, latest, inv_dirs, tmp_files>>

\* the process-wide state and the invocations of create_backup and cancel_backup
bkvars == <<BACKUP_CANCELLED, TAR_PID, bk, child, next_pid, cn, kill_log, now, nruns>>

NoChild == [pid |-> 0, st |-> "none", sig |-> FALSE, code |-> 0, ts |-> 0,
            target |-> <<>>, src |-> <<>>]

IdleBk ==
    [pc |-> "idle", dirs |-> <<>>, idx |-> 0, items |-> <<>>, ts |-> 0,
     target |-> <<>>, src |-> <<>>, ctx |-> "none", status |-> 0,
     outcome |-> "none", detect |-> "none", meta0 |-> NoManifest, cancels0 |-> 0,
     untracked |-> FALSE]

DirLists == UNION {[1..n -> ConfigPaths] : n \in 0..MaxDirs}

\* no result yet
NoResult == Err("none")

IdleRs ==
    [pc |-> "idle", n |-> 0, ts |-> 0, meta |-> <<>>, items |-> <<>>,
     overwrite |-> FALSE, i |-> 0, restored |-> <<>>, skipped |-> <<>>,
     errors |-> <<>>, res |-> NoResult, bundles |-> 0]

\* restore_vscode_extensions is not running.  total: the lines of the list;
\* spawned: the threads started so far; pending: the started threads that have
\* not ended; chunk_end: the last index of the chunk being processed; commands:
\* the install commands run so far; exited_ok: those that exited with success
IdleVx ==
    [pc |-> "idle", n |-> 0, total |-> 0, spawned |-> 0, chunk_end |-> 0,
     pending |-> {}, installed_counter |-> 0, commands |-> 0, exited_ok |-> 0,
     res |-> NoResult]

\* extract_tar_gz is not running.  runs: the extractor processes started, in
\* order, each with how it ended; last: the exit of the tar whose output is examined
\* (existed: the target existed at the start; zstd_available: what `which zstd` said)
IdleEx ==
    [pc |-> "idle", n |-> 0, overwrite |-> FALSE, existed |-> FALSE,
     zstd_available |-> FALSE, runs |-> <<>>, last |-> "none", res |-> NoResult]

\* restore_mas_apps is not running.  listed: the apps of the backed-up list;
\* known: the ids of the installed list as `mas list` gave it; apps_to_install:
\* the ids written for the installer script; script: what has become of the
\* script opened in the terminal; started, ended, succeeded: the positions of
\* apps_to_install whose install operation the script has started, has ended,
\* and has ended with success
IdleMs ==
    [pc |-> "idle", n |-> 0, listed |-> <<>>, known |-> {}, apps_to_install |-> <<>>,
     script |-> "none", started |-> {}, ended |-> {}, succeeded |-> {},
     res |-> NoResult]

IdleQr ==
    [pc |-> "idle", n |-> 0, brews |-> <<>>, casks |-> <<>>, k |-> 0,
     current |-> 0, restored |-> <<>>, skipped |-> <<>>, errors |-> <<>>,
     already |-> {}, res |-> NoResult]

\* the machine that is backed up: its sources exist, nothing was installed by a
\* restore, and the package list is empty
SourceTree == [q \in {Path_aDoc, Path_bdoc, Expand(Path_note)} |-> "src"]

InitHost ==
    /\ host = SourceTree
    /\ installed = {}
    /\ brewfile = <<>>

IdleDl == [n |-> 0, ts |-> 0, res |-> NoResult]

IdlePv ==
    [pc |-> "idle", ts |-> 0, items |-> <<>>, processed |-> 0, pending |-> {},
     verified_counter |-> 0, failed_files |-> <<>>, poisoned |-> FALSE]

\* the application has started: the statics hold their initializers and no
\* command is running
InitStatics ==
    /\ BACKUP_CANCELLED = FALSE
    /\ TAR_PID = 0
    /\ next_pid = 1
    /\ cn = [pc |-> "idle", pid |-> 0, n |-> 0]
    /\ kill_log = {}
    /\ now = 1
    /\ nruns = 0
    /\ tampered = <<>>
    /\ vlog = <<>>
    /\ pv = IdlePv
    /\ rs = IdleRs
    /\ qr = IdleQr
    /\ ext_log = <<>>
    /\ dl = IdleDl
    /\ vx = IdleVx
    /\ ex = IdleEx
    /\ ms = IdleMs
    /\ progress_log = <<>>

\* one invocation of create_backup at a time
InitProgram ==
    /\ InitStatics
    /\ bk = [p \in Procs |-> IdleBk]
    /\ child = [p \in Procs |-> NoChild]

\* a backup volume that holds no run yet
Init ==
    /\ InitProgram
    /\ InitHost
    /\ data_dirs = {}
    /\ files = [t \in Stamps |-> NoFiles]
    /\ metadata = [t \in Stamps |-> NoManifest]
    /\ latest = NoLatest
    /\ inv_dirs = {}
    /\ tmp_files = {}

(***************************************************************************)
(* create_tar_gz and create_backup.                                         *)
(***************************************************************************)
\* the archive extension create_backup picks (the fast codec's when zstd is installed)
archive_ext == Str_tar_zst

\* format!("{}.{}", name.to_lowercase().replace(' ', "-").replace('.', "_"), ext)
archive_name(name) ==
    replace(replace(to_lowercase(name), " ", "-"), ".", "_") \o <<".">> \o archive_ext

ReservedArchive(id) == id \o <<".">> \o archive_ext

BackupItem(path, archive, hash, archive_size, source_size) ==
    [path |-> path, archive |-> archive, hash |-> hash,
     archive_size_bytes |-> archive_size, source_size_bytes |-> source_size]

RECURSIVE SumSourceSize(_)
\* items.iter().map(|i| i.source_size_bytes).sum()
SumSourceSize(its) ==
    IF its = <<>> THEN 0
    ELSE its[1].source_size_bytes + SumSourceSize(Tail(its))

BackupMetadata(ts, its) ==
    [timestamp |-> ts, items |-> its, hash_algorithm |-> "sha256",
     total_source_size_bytes |-> SumSourceSize(its)]

\* create_backup returns: its position goes back to idle, the result is kept
\* (detect: where this run observed a cancellation, "none" if nowhere)
Return(b, result, where) ==
    [b EXCEPT !.pc = "idle", !.outcome = result,
              !.detect = IF where = "none" THEN @ ELSE where]

\* (a create_tar_gz that does not look at the cancellation flag)
tar_result_unchecked(cancelled, status, target_exists) ==
    IF status # 0 /\ ~target_exists THEN "tar failed" ELSE "Ok"

\* (a create_tar_gz for which every nonzero exit code is a failure)
tar_result_strict(cancelled, status, target_exists) ==
    IF cancelled THEN "Cancelled"
    ELSE IF status # 0 THEN "tar failed" ELSE "Ok"

\* the classification of the awaited archiver by create_tar_gz:
\* "Cancelled", "Ok" or "tar failed"
tar_result(cancelled, status, target_exists) ==
    IF cancelled THEN "Cancelled"
    ELSE IF status # 0
         THEN IF target_exists THEN "Ok" ELSE "tar failed"
         ELSE "Ok"

\* (a create_tar_gz that returns the cancellation without deleting the target)
tar_cancel_cleanup_keep(f, target) == f

\* create_tar_gz on a cancellation it observed: fs::remove_file(target)
tar_cancel_cleanup(f, target) == RemoveFile(f, target)

\* the directory loop's post-archive check on a cancellation: fs::remove_file(&archive_path)
post_cancel_cleanup(f, target) == RemoveFile(f, target)

\* the value create_backup's cancellation checks store into BACKUP_CANCELLED
flag_after_cancel == FALSE

\* ExitStatus of a child ended by a signal: no exit code, not a success
KilledBySignal == -1

\* the invocation starts: Local::now() is read (the clock never runs backwards)
\* and the run's directories are created
BeginBackup(p, ds) ==
    /\ bk[p].pc = "idle"
    /\ nruns' = nruns + 1
    /\ \E t \in now..MaxTime :
         /\ now' = t
         /\ data_dirs' = data_dirs \cup {t}
         /\ inv_dirs' = inv_dirs \cup {t}
         /\ bk' = [bk EXCEPT ![p] = [IdleBk EXCEPT !.pc = "loop", !.dirs = ds,
                                                   !.idx = 1, !.ts = t,
                                                   !.meta0 = metadata[t],
                                                   !.cancels0 = cn.n]]
    /\ UNCHANGED <<xvars, BACKUP_CANCELLED, TAR_PID, child, next_pid, cn, kill_log,
                   files, metadata, latest, tmp_files>>

\* an invocation of create_backup, of at most MaxRuns
StartBackup(p, ds) == nruns < MaxRuns /\ BeginBackup(p, ds)

\* the head of the directory loop: the cancellation check, the expansion of the
\* path, and the archiving of a single file
LoopHead(p) ==
    LET b == bk[p]
        dir == b.dirs[b.idx]
        expanded == Expand(dir)
        name == file_name(expanded)
        arch == archive_name(name)
    IN
    /\ b.pc = "loop"
    /\ \/ /\ b.idx > Len(b.dirs)
          /\ bk' = [bk EXCEPT ![p].pc = "brew"]
          /\ UNCHANGED <<BACKUP_CANCELLED, files>>
       \/ /\ b.idx <= Len(b.dirs)
          /\ BACKUP_CANCELLED
          /\ BACKUP_CANCELLED' = flag_after_cancel
          /\ bk' = [bk EXCEPT ![p] = Return(b, "Backup wurde abgebrochen", "pre")]
          /\ UNCHANGED files
       \/ /\ b.idx <= Len(b.dirs)
          /\ ~BACKUP_CANCELLED
          /\ SourceKind(expanded) = "none"
          /\ bk' = [bk EXCEPT ![p].idx = b.idx + 1]
          /\ UNCHANGED <<BACKUP_CANCELLED, files>>
       \/ /\ b.idx <= Len(b.dirs)
          /\ ~BACKUP_CANCELLED
          /\ SourceKind(expanded) = "dir"
          /\ bk' = [bk EXCEPT ![p].pc = "tgz_spawn", ![p].target = arch,
                              ![p].src = expanded, ![p].ctx = "dir"]
          /\ UNCHANGED <<BACKUP_CANCELLED, files>>
       \/ /\ b.idx <= Len(b.dirs)
          /\ ~BACKUP_CANCELLED
          /\ SourceKind(expanded) = "file"
          /\ \E io \in {"ok", "create_err", "write_err"} :
               /\ files' = [files EXCEPT ![b.ts] =
                              IF io = "create_err" THEN @
                              ELSE WriteFile(@, arch,
                                     IF io = "ok" THEN ArchiveBytes(expanded)
                                     ELSE "partial")]
               /\ bk' = [bk EXCEPT ![p] =
                           IF io = "ok"
                           THEN [b EXCEPT !.pc = "post", !.target = arch,
                                          !.src = expanded, !.ctx = "dir"]
                           ELSE Return([b EXCEPT !.target = arch], "io error", "none")]
          /\ UNCHANGED BACKUP_CANCELLED
    /\ UNCHANGED <<xvars, TAR_PID, child, next_pid, cn, kill_log, now, nruns,
                   data_dirs, metadata, latest, inv_dirs, tmp_files>>

\* an optional item after create_tar_gz(..).is_ok(): pushed if its digest can be read
OptItem(its, f, id, arch) ==
    LET h == hash_file(f, arch) IN
    IF h.ok THEN Append(its, BackupItem(id, arch, h.val, FileLen(f, arch), 1))
    ELSE its

\* where create_backup continues after create_tar_gz returned, by call site: the
\* directory loop propagates an error with "?" (lines 1002-1003); the optional
\* items test is_ok() and go on either way (lines 1172-1184, 1247-1261).
\* f: the run directory's files when create_tar_gz returns
AfterTar(b0, result, f) ==
    LET b == [b0 EXCEPT !.status = 0] IN
    CASE b.ctx = "dir" ->
           IF result = "Ok" THEN [b EXCEPT !.pc = "post"]
           ELSE Return(b, result, IF result = "Cancelled" THEN "tgz" ELSE "none")
      [] b.ctx = "cache" ->
           [b EXCEPT !.pc = "safari", !.target = <<>>, !.src = <<>>, !.ctx = "none",
                     !.detect = IF result = "Cancelled" THEN "opt" ELSE @,
                     !.items = IF result = "Ok"
                               THEN OptItem(@, f, Str_homebrew_cache, b.target)
                               ELSE @]
      [] OTHER ->
           [b EXCEPT !.pc = "write", !.target = <<>>, !.src = <<>>, !.ctx = "none",
                     !.detect = IF result = "Cancelled" THEN "opt" ELSE @,
                     !.items = IF result = "Ok"
                               THEN OptItem(@, f, Str_safari_settings, b.target)
                               ELSE @]

\* line 1266: fs::remove_dir_all(&temp_safari_dir) once the browser settings were handled
AfterTarTmp(b, tmp) == IF b.ctx = "safari" THEN tmp \ {"safari_backup"} ELSE tmp

\* create_tar_gz: cmd.spawn(), the child leads a new process group
TgzSpawn(p) ==
    LET b == bk[p] IN
    /\ b.pc = "tgz_spawn"
    /\ \/ /\ child' = [child EXCEPT ![p] =
                         [pid |-> next_pid, st |-> "running", sig |-> FALSE,
                          code |-> 0, ts |-> b.ts, target |-> b.target,
                          src |-> b.src]]
          /\ next_pid' = next_pid + 1
          /\ bk' = [bk EXCEPT ![p].pc = "tgz_store"]
          /\ UNCHANGED tmp_files
       \/ /\ bk' = [bk EXCEPT ![p] = AfterTar(b, "Failed to spawn tar", files[b.ts])]
          /\ tmp_files' = AfterTarTmp(b, tmp_files)
          /\ UNCHANGED <<child, next_pid>>
    /\ UNCHANGED <<xvars, BACKUP_CANCELLED, TAR_PID, cn, kill_log, now, nruns,
                   data_dirs, files, metadata, latest, inv_dirs>>

\* create_tar_gz: TAR_PID.store(child.id())
TgzStorePid(p) ==
    /\ bk[p].pc = "tgz_store"
    /\ TAR_PID' = child[p].pid
    /\ bk' = [bk EXCEPT ![p].pc = "tgz_wait"]
    /\ UNCHANGED <<xvars, BACKUP_CANCELLED, child, next_pid, cn, kill_log, now, nruns,
                   fsvars>>

\* the archiver process ends: by itself with an exit code, or by the signal
\* it was sent.  Exit code 0 leaves the complete archive; a nonzero code or a
\* signal leaves an archive that lacks some members, or no file.
ChildExit(p) ==
    LET c == child[p] IN
    /\ c.st = "running"
    /\ \E code \in IF c.sig THEN {KilledBySignal} ELSE {0, 1, 2},
          left \in {"complete", "partial", "none"} :
         /\ code = 0 <=> left = "complete"
         /\ child' = [child EXCEPT ![p].st = "exited", ![p].sig = FALSE,
                                   ![p].code = code]
         /\ files' = [files EXCEPT ![c.ts] =
                        CASE left = "complete" -> WriteFile(@, c.target, ArchiveBytes(c.src))
                          [] left = "partial" -> WriteFile(@, c.target, "partial")
                          [] OTHER -> RemoveFile(@, c.target)]
    /\ UNCHANGED <<xvars, BACKUP_CANCELLED, TAR_PID, bk, next_pid, cn, kill_log, now, nruns,
                   data_dirs, metadata, latest, inv_dirs, tmp_files>>

\* create_tar_gz: child.wait() returns once the child has ended
TgzWait(p) ==
    /\ bk[p].pc = "tgz_wait"
    /\ child[p].st = "exited"
    /\ child' = [child EXCEPT ![p] = NoChild]
    /\ bk' = [bk EXCEPT ![p].pc = "tgz_clear", ![p].status = child[p].code]
    /\ UNCHANGED <<xvars, BACKUP_CANCELLED, TAR_PID, next_pid, cn, kill_log, now, nruns,
                   fsvars>>

\* create_tar_gz: TAR_PID.store(0)
TgzClearPid(p) ==
    /\ bk[p].pc = "tgz_clear"
    /\ TAR_PID' = 0
    /\ bk' = [bk EXCEPT ![p].pc = "tgz_check"]
    /\ UNCHANGED <<xvars, BACKUP_CANCELLED, child, next_pid, cn, kill_log, now, nruns,
                   fsvars>>

\* create_tar_gz: the cancellation check and the exit-status policy, then the
\* caller's handling of the result
TgzCheck(p) ==
    LET b == bk[p]
        result == tar_result(BACKUP_CANCELLED, b.status,
                             FileExists(files[b.ts], b.target))
    IN
    /\ b.pc = "tgz_check"
    /\ files' = [files EXCEPT ![b.ts] =
                   IF BACKUP_CANCELLED
                   THEN tar_cancel_cleanup(@, b.target) ELSE @]
    /\ bk' = [bk EXCEPT ![p] = AfterTar(b, result, files'[b.ts])]
    /\ tmp_files' = AfterTarTmp(b, tmp_files)
    /\ UNCHANGED <<xvars, BACKUP_CANCELLED, TAR_PID, child, next_pid, cn, kill_log, now,
                   nruns, data_dirs, metadata, latest, inv_dirs>>

\* the directory loop after the archive step: the cancellation check, then the
\* digest and the item
PostArchive(p) ==
    LET b == bk[p]
        f == files[b.ts]
        h == hash_file(f, b.target)
    IN
    /\ b.pc = "post"
    /\ \/ /\ BACKUP_CANCELLED
          /\ files' = [files EXCEPT ![b.ts] = post_cancel_cleanup(@, b.target)]
          /\ BACKUP_CANCELLED' = flag_after_cancel
          /\ bk' = [bk EXCEPT ![p] = Return(b, "Backup wurde abgebrochen", "post")]
       \/ /\ ~BACKUP_CANCELLED
          /\ bk' = [bk EXCEPT ![p] =
                      IF h.ok
                      THEN [b EXCEPT !.pc = "loop", !.idx = b.idx + 1,
                                     !.target = <<>>, !.src = <<>>, !.ctx = "none",
                                     !.items = Append(@,
                                        BackupItem(b.dirs[b.idx], b.target, h.val,
                                                   FileLen(f, b.target),
                                                   SourceSize(b.src)))]
                      ELSE Return(b, "io error", "none")]
          /\ UNCHANGED <<BACKUP_CANCELLED, files>>
    /\ UNCHANGED <<xvars, TAR_PID, child, next_pid, cn, kill_log, now, nruns,
                   data_dirs, metadata, latest, inv_dirs, tmp_files>>

IoOutcomes == {"ok", "create_err", "write_err"}

\* one reserved inventory snapshot (homebrew-packages, mas-apps or
\* vscode-extensions) of a run in state st = [f, tmp, items, failed]: the temp
\* file, the gzip archive, the digest, the item.
\* collected: the collector returned text to write to the temp file;
\* remove_outside: the temp file is removed after the "if exists" block (TRUE), or
\* inside it, after the item was pushed (FALSE, the mas-apps block, which also
\* archives a temp file left by an earlier run);
\* io: whether the archive file could be created and written ("?" returns if not)
InventoryItem(st, id, tmp, bytes, remove_outside, collected, io) ==
    LET arch == ReservedArchive(id)
        written == IF collected THEN st.tmp \cup {tmp} ELSE st.tmp
        doit == tmp \in written /\ (collected \/ ~remove_outside)
        f2 == IF ~doit \/ io = "create_err" THEN st.f
              ELSE WriteFile(st.f, arch, IF io = "ok" THEN bytes ELSE "partial")
        h == hash_file(f2, arch)
    IN
    IF st.failed THEN st
    ELSE IF doit /\ io # "ok"
    THEN [st EXCEPT !.f = f2, !.tmp = written, !.failed = TRUE]
    ELSE [st EXCEPT !.f = f2,
                    !.tmp = IF (remove_outside /\ collected) \/ (~remove_outside /\ doit)
                            THEN written \ {tmp} ELSE written,
                    !.items = IF doit
                              THEN Append(@, BackupItem(id, arch, h.val,
                                                        FileLen(f2, arch), 1))
                              ELSE @]

\* lines 1033-1139: the three reserved inventory snapshots, in order
ArchiveInventories(p) ==
    LET b == bk[p]
        s0 == [f |-> files[b.ts], tmp |-> tmp_files, items |-> b.items,
               failed |-> FALSE]
    IN
    /\ b.pc = "brew"
    /\ \E c1 \in BOOLEAN, c2 \in BOOLEAN, c3 \in BOOLEAN,
          io1 \in IoOutcomes, io2 \in IoOutcomes, io3 \in IoOutcomes :
         LET s1 == InventoryItem(s0, Str_homebrew_packages, "homebrew_packages.txt",
                                 "gz:brew", TRUE, c1, io1)
             s2 == InventoryItem(s1, Str_mas_apps, "mas_apps.txt",
                                 "gz:mas", FALSE, c2, io2)
             s3 == InventoryItem(s2, Str_vscode_extensions, "vscode_extensions.txt",
                                 "gz:vscode", TRUE, c3, io3)
         IN
         /\ files' = [files EXCEPT ![b.ts] = s3.f]
         /\ tmp_files' = s3.tmp
         /\ bk' = [bk EXCEPT ![p] =
                     IF s3.failed THEN Return(b, "io error", "none")
                     ELSE [b EXCEPT !.pc = "cache", !.items = s3.items]]
    /\ UNCHANGED <<xvars, BACKUP_CANCELLED, TAR_PID, child, next_pid, cn, kill_log, now,
                   nruns, data_dirs, metadata, latest, inv_dirs>>

\* lines 1141-1189: the optional package-manager cache, archived by create_tar_gz
\* when the configuration asks for it and the cache exists within the size ceiling
OptCache(p) ==
    LET b == bk[p] IN
    /\ b.pc = "cache"
    /\ \E wanted \in BOOLEAN :
         bk' = [bk EXCEPT ![p] =
                  IF wanted
                  THEN [b EXCEPT !.pc = "tgz_spawn", !.ctx = "cache",
                                 !.target = ReservedArchive(Str_homebrew_cache),
                                 !.src = Str_homebrew_cache]
                  ELSE [b EXCEPT !.pc = "safari"]]
    /\ UNCHANGED <<xvars, BACKUP_CANCELLED, TAR_PID, child, next_pid, cn, kill_log, now,
                   nruns, fsvars>>

\* lines 1191-1267: the optional browser settings are copied to a staging
\* directory, which create_tar_gz archives when something was copied
OptSafari(p) ==
    LET b == bk[p] IN
    /\ b.pc = "safari"
    /\ \E wanted \in BOOLEAN, copied \in BOOLEAN :
         /\ bk' = [bk EXCEPT ![p] =
                     IF wanted /\ copied
                     THEN [b EXCEPT !.pc = "tgz_spawn", !.ctx = "safari",
                                    !.target = ReservedArchive(Str_safari_settings),
                                    !.src = Str_safari_settings]
                     ELSE [b EXCEPT !.pc = "write"]]
         /\ tmp_files' = IF wanted /\ copied
                         THEN tmp_files \cup {"safari_backup"}
                         ELSE IF wanted THEN tmp_files \ {"safari_backup"}
                         ELSE tmp_files
    /\ UNCHANGED <<xvars, BACKUP_CANCELLED, TAR_PID, child, next_pid, cn, kill_log, now,
                   nruns, data_dirs, files, metadata, latest, inv_dirs>>

\* lines 1269-1286: the manifest is assembled and written
WriteManifest(p) ==
    LET b == bk[p] IN
    /\ b.pc = "write"
    /\ \E io_ok \in BOOLEAN :
         IF io_ok
         THEN /\ metadata' = [metadata EXCEPT ![b.ts] = BackupMetadata(b.ts, b.items)]
              /\ bk' = [bk EXCEPT ![p].pc = "latest"]
         ELSE /\ bk' = [bk EXCEPT ![p] = Return(b, "io error", "none")]
              /\ UNCHANGED metadata
    /\ UNCHANGED <<xvars, BACKUP_CANCELLED, TAR_PID, child, next_pid, cn, kill_log, now,
                   nruns, data_dirs, files, latest, inv_dirs, tmp_files>>

\* (a pointer that names the second before the run's)
latest_json_before(ts) == <<ts - 1>>

\* the content of latest.json: { "latest": timestamp, .. }
latest_json(ts) == <<ts>>

\* lines 1341-1361: latest.json is written and the manifest returned
UpdateLatest(p) ==
    LET b == bk[p] IN
    /\ b.pc = "latest"
    /\ \E io_ok \in BOOLEAN :
         IF io_ok
         THEN /\ latest' = latest_json(b.ts)
              /\ bk' = [bk EXCEPT ![p] = Return(b, "Ok", "none")]
         ELSE /\ bk' = [bk EXCEPT ![p] = Return(b, "io error", "none")]
              /\ UNCHANGED latest
    /\ UNCHANGED <<xvars, BACKUP_CANCELLED, TAR_PID, child, next_pid, cn, kill_log, now,
                   nruns, data_dirs, files, metadata, inv_dirs, tmp_files>>

(***************************************************************************)
(* cancel_backup.                                                           *)
(***************************************************************************)
\* BACKUP_CANCELLED.store(true)
CancelStore ==
    /\ cn.pc = "idle"
    /\ cn.n < MaxCancels
    /\ BACKUP_CANCELLED' = TRUE
    /\ cn' = [cn EXCEPT !.pc = "load", !.n = @ + 1]
    /\ UNCHANGED <<xvars, TAR_PID, bk, child, next_pid, kill_log, now, nruns, fsvars>>

\* invocation p is at a step of the directory loop that archives or digests the
\* configured directory at position idx, and no archiver of it is in flight
InDirectoryLoop(p) ==
    \/ bk[p].pc = "loop" /\ bk[p].idx <= Len(bk[p].dirs)
    \/ bk[p].pc \in {"tgz_spawn", "tgz_check", "post"} /\ bk[p].ctx = "dir"

\* (a cancel that signals whatever id it loaded)
tracked_always(pid) == TRUE

\* if pid > 0
tracked(pid) == pid > 0

\* let pid = TAR_PID.load(); with no tracked id the command returns (untracked
\* records that the request was made during invocation p, reached it in its
\* directory loop and found no id)
CancelLoad ==
    /\ cn.pc = "load"
    /\ cn' = IF tracked(TAR_PID) THEN [cn EXCEPT !.pid = TAR_PID, !.pc = "kill"]
             ELSE [cn EXCEPT !.pc = "idle"]
    /\ bk' = [p \in DOMAIN bk |->
                IF ~tracked(TAR_PID) /\ InDirectoryLoop(p) /\ cn.n > bk[p].cancels0
                THEN [bk[p] EXCEPT !.untracked = TRUE] ELSE bk[p]]
    /\ UNCHANGED <<xvars, BACKUP_CANCELLED, TAR_PID, child, next_pid, kill_log, now,
                   nruns, fsvars>>

\* libc::kill(-pid, SIGTERM): the signal reaches the process group of that id
CancelKill ==
    /\ cn.pc = "kill"
    /\ child' = [p \in DOMAIN child |->
                   IF child[p].pid = cn.pid /\ child[p].st = "running"
                   THEN [child[p] EXCEPT !.sig = TRUE] ELSE child[p]]
    /\ kill_log' = kill_log \cup
                     {[pid |-> cn.pid,
                       live |-> \E p \in DOMAIN child : child[p].pid = cn.pid
                                                 /\ child[p].st # "none"]}
    /\ cn' = [cn EXCEPT !.pc = "clear"]
    /\ UNCHANGED <<xvars, BACKUP_CANCELLED, TAR_PID, bk, next_pid, now, nruns, fsvars>>

\* TAR_PID.store(0)
CancelClear ==
    /\ cn.pc = "clear"
    /\ TAR_PID' = 0
    /\ cn' = [cn EXCEPT !.pc = "idle", !.pid = 0]
    /\ UNCHANGED <<xvars, BACKUP_CANCELLED, bk, child, next_pid, kill_log, now, nruns,
                   fsvars>>

(***************************************************************************)
(* verify_backup and verify_backup_parallel.                                *)
(***************************************************************************)
\* one entry of failed_files: "<archive>: <reason>"; a hash mismatch also shows
\* the first HashPrefix characters of the stored and of the computed hash
FailedEntry(archive, why, expected, computed) ==
    [archive |-> archive, why |-> why, expected |-> expected, computed |-> computed]

NoEntry == FailedEntry(<<>>, "", <<>>, <<>>)

\* &s[..HashPrefix] is defined when s has that many characters; it panics otherwise
slice_ok(s) == Len(s) >= HashPrefix

\* what verification finds for one manifest item in the run directory f:
\* kind "verified", "failed" (with the entry pushed) or "panic" (the slice)
check_item(f, item) ==
    IF ~FileExists(f, item.archive)
    THEN [kind |-> "failed",
          entry |-> FailedEntry(item.archive, "Datei nicht gefunden", <<>>, <<>>)]
    ELSE LET h == hash_file(f, item.archive) IN
         IF ~h.ok
         THEN [kind |-> "failed",
               entry |-> FailedEntry(item.archive, "Fehler beim Lesen", <<>>, <<>>)]
         ELSE IF h.val = item.hash
         THEN [kind |-> "verified", entry |-> NoEntry]
         ELSE IF slice_ok(item.hash) /\ slice_ok(h.val)
         THEN [kind |-> "failed",
               entry |-> FailedEntry(item.archive, "Hash stimmt nicht ueberein",
                                     SubSeq(item.hash, 1, HashPrefix),
                                     SubSeq(h.val, 1, HashPrefix))]
         ELSE [kind |-> "panic", entry |-> NoEntry]

VerifyResult(total_files, verified_files, failed_files) ==
    [success |-> failed_files = <<>>, total_files |-> total_files,
     verified_files |-> verified_files, failed_files |-> failed_files]

\* the command ended by a panic: it returns no value
Panicked == Err("panic")

\* (a missing manifest reported as the failure of one item)
NotFoundAsFailure ==
    Ok(VerifyResult(1, 0, <<FailedEntry(<<>>, "Backup nicht gefunden", <<>>, <<>>)>>))

\* Err(format!("Backup nicht gefunden: {}", timestamp))
NotFound == Err("Backup nicht gefunden")

\* verify_backup on manifest m (NoManifest: no metadata.json) and run directory f
verify_backup(m, f) ==
    IF m = NoManifest THEN NotFound
    ELSE LET n == Len(m.items)
             v == [k \in 1..n |-> check_item(f, m.items[k])]
             IsFailed(x) == x.kind = "failed"
             failed == SelectSeq(v, IsFailed)
         IN  IF \E k \in 1..n : v[k].kind = "panic" THEN Panicked
             ELSE Ok(VerifyResult(n,
                                  Cardinality({k \in 1..n : v[k].kind = "verified"}),
                                  [k \in 1..Len(failed) |-> failed[k].entry]))

\* one logged result; epoch: how many outside changes the volume had seen
Logged(mode, ts, res) ==
    [mode |-> mode, ts |-> ts, epoch |-> Len(tampered), res |-> res]

\* commands are issued one at a time: none is in progress
Quiet ==
    /\ \A p \in DOMAIN bk : bk[p].pc = "idle"
    /\ pv.pc = "idle"
    /\ rs.pc = "idle"
    /\ qr.pc = "idle"
    /\ vx.pc = "idle"
    /\ ex.pc = "idle"
    /\ ms.pc = "idle"

\* fraction = (i + 1) as f64 / total_files as f64, kept as the two numbers
Fraction(done, total) == [done |-> done, total |-> total]

\* the "backup-progress" notifications verify_backup emits on manifest m and run
\* directory f, in order: the emit is the last statement of the loop body, which
\* the `continue` of a missing archive skips and a panic never reaches
progress_events(m, f) ==
    IF m = NoManifest THEN <<>> ELSE
    LET n == Len(m.items)
        v == [k \in 1..n |-> check_item(f, m.items[k])]
        Reached(k) == \A j \in 1..k : v[j].kind # "panic"
        slot == [k \in 1..n |->
                   [k |-> k, emit |-> Reached(k) /\ FileExists(f, m.items[k].archive)]]
        Emits(x) == x.emit
        emitted == SelectSeq(slot, Emits)
    IN  [j \in 1..Len(emitted) |-> Fraction(emitted[j].k, n)]

\* verify_backup, sequential
VerifySeq(ts) ==
    /\ Quiet
    /\ Len(vlog) < MaxVerifies
    /\ vlog' = Append(vlog, Logged("seq", ts, verify_backup(metadata[ts], files[ts])))
    /\ progress_log' = progress_events(metadata[ts], files[ts])
    /\ UNCHANGED <<bkvars, dl, vx, ex, ms, rsvars, fsvars, tampered, pv>>

\* verify_backup_parallel up to its chunk loop
ParStart(ts) ==
    /\ Quiet
    /\ Len(vlog) < MaxVerifies
    /\ IF metadata[ts] = NoManifest
       THEN /\ vlog' = Append(vlog, Logged("par", ts, NotFound))
            /\ UNCHANGED pv
       ELSE /\ pv' = [IdlePv EXCEPT !.pc = "loop", !.ts = ts,
                                    !.items = metadata[ts].items]
            /\ UNCHANGED vlog
    /\ UNCHANGED <<bkvars, dl, vx, mxvars, rsvars, fsvars, tampered>>

\* the workers of the next chunk: item indices processed+1 .. processed+PARALLEL_VERIFY
Chunk(processed, total) ==
    {k \in 1..total : processed < k /\ k <= processed + PARALLEL_VERIFY}

\* a chunk's threads are spawned
ParSpawn ==
    /\ pv.pc = "loop"
    /\ pv.processed < Len(pv.items)
    /\ pv' = [pv EXCEPT !.pc = "join",
                        !.pending = Chunk(pv.processed, Len(pv.items))]
    /\ UNCHANGED <<bkvars, dl, vx, mxvars, rsvars, fsvars, tampered, vlog>>

\* (a list that survives the poisoning of its mutex)
into_inner_recovered(list, poisoned) == list

\* Mutex::into_inner().unwrap_or_default(): the default, an empty list, when a
\* thread panicked while it held the lock
into_inner_or_default(list, poisoned) == IF poisoned THEN <<>> ELSE list

\* one worker thread runs: the counter, or the push under the lock.  A thread
\* that finds the mutex poisoned panics in lock().unwrap() and pushes nothing; a
\* thread whose slice panics holds the lock, and poisons the mutex.
ParWorker(k) ==
    LET v == check_item(files[pv.ts], pv.items[k]) IN
    /\ pv.pc = "join"
    /\ k \in pv.pending
    /\ pv' = [pv EXCEPT
                !.pending = @ \ {k},
                !.verified_counter = IF v.kind = "verified" THEN @ + 1 ELSE @,
                !.failed_files = IF v.kind = "failed" /\ ~pv.poisoned
                                 THEN Append(@, v.entry) ELSE @,
                !.poisoned = @ \/ v.kind = "panic"]
    /\ UNCHANGED <<bkvars, dl, vx, mxvars, rsvars, fsvars, tampered, vlog>>

\* every handle of the chunk is joined (a panic of a thread is ignored)
ParJoin ==
    /\ pv.pc = "join"
    /\ pv.pending = {}
    /\ pv' = [pv EXCEPT !.pc = "loop",
                        !.processed = @ + Cardinality(Chunk(@, Len(pv.items)))]
    /\ UNCHANGED <<bkvars, dl, vx, mxvars, rsvars, fsvars, tampered, vlog>>

\* the chunks are done: the result is assembled and returned
ParReturn ==
    /\ pv.pc = "loop"
    /\ pv.processed >= Len(pv.items)
    /\ vlog' = Append(vlog,
                 Logged("par", pv.ts,
                        Ok(VerifyResult(Len(pv.items), pv.verified_counter,
                              into_inner_or_default(pv.failed_files, pv.poisoned)))))
    /\ pv' = IdlePv
    /\ UNCHANGED <<bkvars, dl, vx, mxvars, rsvars, fsvars, tampered>>

\* the bytes of one archive file of a run are changed from outside the program
Tamper(ts, name) ==
    /\ Quiet
    /\ Len(tampered) < MaxTampers
    /\ metadata[ts] # NoManifest
    /\ \E k \in 1..Len(metadata[ts].items) : metadata[ts].items[k].archive = name
    /\ FileExists(files[ts], name)
    /\ files[ts][name] # "tampered"
    /\ files' = [files EXCEPT ![ts] = WriteFile(@, name, "tampered")]
    /\ tampered' = Append(tampered, [ts |-> ts, name |-> name])
    /\ UNCHANGED <<bkvars, dl, vx, mxvars, rsvars, data_dirs, metadata, latest, inv_dirs, tmp_files, vlog, pv>>

VerifyParStep ==
    \/ \E ts \in Times : ParStart(ts)
    \/ ParSpawn
    \/ \E k \in pv.pending : ParWorker(k)
    \/ ParJoin
    \/ ParReturn

(***************************************************************************)
(* restore_items and extract_tar_gz.                                        *)
(***************************************************************************)
ReservedIds ==
    {Str_homebrew_packages, Str_mas_apps, Str_vscode_extensions,
     Str_safari_settings, Str_homebrew_cache}

\* one entry of restored, skipped or errors: the text names the item and carries a
\* note.  i is the position of the item in the selection (not part of the text;
\* it tells the entries of a repeated identifier apart).
Entry(i, item, note) == [i |-> i, item |-> item, note |-> note]

RestoreResult(restored, skipped, errors) ==
    [restored_count |-> Len(restored), skipped_count |-> Len(skipped),
     error_count |-> Len(errors), restored |-> restored, skipped |-> skipped,
     errors |-> errors]

\* metadata.items.iter().find(|it| it.path == path): the index of the first
\* item of that path, 0 when there is none
find_item(items, path) ==
    LET I == {k \in 1..Len(items) : items[k].path = path}
    IN  IF I = {} THEN 0 ELSE CHOOSE k \in I : \A j \in I : k <= j

\* the destination of a generic item: "~/x" and relative paths are joined to the
\* home directory, absolute paths are kept
resolve_target(item_path) ==
    IF Len(item_path) >= 2 /\ item_path[1] = "~" /\ item_path[2] = "/"
    THEN home_dir \o <<"/">> \o SubSeq(item_path, 3, Len(item_path))
    ELSE IF Len(item_path) >= 1 /\ item_path[1] = "/" THEN item_path
    ELSE home_dir \o <<"/">> \o item_path

\* Path::parent, with the caller's default "/"
parent(path) ==
    LET k == LastSlash(path)
    IN  IF k <= 1 THEN <<"/">> ELSE SubSeq(path, 1, k - 1)

\* q is path d or lies below it
Below(d, q) ==
    \/ q = d
    \/ /\ Len(d) < Len(q)
       /\ SubSeq(q, 1, Len(d)) = d
       /\ q[Len(d) + 1] = "/"

\* Path::exists on the machine h: the root, the home directory, and every path
\* that h holds or that leads to one
PathExists(h, path) ==
    \/ path = <<"/">>
    \/ path = home_dir
    \/ \E q \in DOMAIN h : Below(path, q)

\* how a run of extract_tar_gz may go: the parent directory cannot be created
\* (only when it does not exist); the first extractor unpacks; it cannot be
\* started; it and the fallbacks fail, leaving nothing or a part; or, without
\* overwrite, the fallback reports existing files, which is tolerated
ExtractIo(h, target, overwrite) ==
    {"ok", "spawn_err", "fail", "fail_partial"}
        \cup (IF PathExists(h, parent(target)) THEN {} ELSE {"mkdir_err"})
        \cup (IF overwrite THEN {} ELSE {"exists"})

\* extract_tar_gz on machine h: [ok, err, host, invoked]; invoked: an extractor
\* process was started
extract_tar_gz(h, bytes, target, overwrite, io) ==
    LET h1 == IF PathExists(h, parent(target)) THEN h
              ELSE WriteFile(h, parent(target), "dir")
    IN
    IF io = "mkdir_err"
    THEN [ok |-> FALSE, err |-> "Fehler beim Erstellen des Verzeichnisses",
          host |-> h, invoked |-> FALSE]
    ELSE IF ~overwrite /\ PathExists(h1, target)
    THEN [ok |-> FALSE, err |-> "Ziel existiert bereits", host |-> h1,
          invoked |-> FALSE]
    ELSE CASE io = "ok" ->
                [ok |-> TRUE, err |-> "", host |-> WriteFile(h1, target, bytes),
                 invoked |-> TRUE]
           [] io = "exists" ->
                [ok |-> TRUE, err |-> "", host |-> h1, invoked |-> TRUE]
           [] io = "spawn_err" ->
                [ok |-> FALSE, err |-> "ditto Fehler", host |-> h1, invoked |-> TRUE]
           [] io = "fail_partial" ->
                [ok |-> FALSE, err |-> "Extraktion fehlgeschlagen",
                 host |-> WriteFile(h1, target, "partial"), invoked |-> TRUE]
           [] OTHER ->
                [ok |-> FALSE, err |-> "Extraktion fehlgeschlagen", host |-> h1,
                 invoked |-> TRUE]

\* (a restore that never skips)
never_skip(target_exists, overwrite) == FALSE

\* if target.exists() && !overwrite { skipped.push(..); continue; }
skip_existing(target_exists, overwrite) == target_exists /\ ~overwrite

\* (an unknown identifier that is passed over without a word)
drop_unknown(r, e) == r

\* errors.push(format!("{}: Nicht im Backup gefunden", item_path))
push_unknown(r, e) == [r EXCEPT !.errors = Append(@, e)]

\* (a restore that gives up the rest of the selection at the first error)
push_error_and_stop(r, e) == [r EXCEPT !.errors = Append(@, e), !.i = Len(r.items)]

\* errors.push(format!("{}: {}", item_path, e))
push_error(r, e) == [r EXCEPT !.errors = Append(@, e)]

push_restored(r, e) == [r EXCEPT !.restored = Append(@, e)]
push_skipped(r, e) == [r EXCEPT !.skipped = Append(@, e)]

\* the scratch directory of a reserved restore, in the temp directory
ScratchDir(id) ==
    CASE id = Str_homebrew_packages -> "macos-backup-restore"
      [] id = Str_mas_apps -> "macos-backup-restore-mas"
      [] id = Str_vscode_extensions -> "macos-backup-restore-vscode"
      [] id = Str_safari_settings -> "macos-backup-restore-safari"
      [] OTHER -> "homebrew-cache"

\* (a count of every line of the package list, the app-store lines included)
count_lines(lines) == Len(lines)

\* restore_homebrew_packages: the lines of the package list that start with
\* "brew ", "cask " or "tap " are counted
count_entries(lines) ==
    Cardinality({j \in 1..Len(lines) : lines[j].kind \in {"brew", "cask", "tap"}})

\* how restore_homebrew_packages may end.  have: the archive unpacks to the
\* package list; out: Ok(0), Ok(n > 0) or Err; bundle: "brew bundle" was run.
\* Without the package list it fails before the count; with a count of 0 it
\* returns Ok(0) before the bulk install; Ok with a count above 0 comes from
\* the bulk install.
homebrew_outcome(have, lines, out, bundle) ==
    /\ ~have => out = "err" /\ ~bundle
    /\ count_entries(lines) = 0 => out # "ok1" /\ ~bundle
    /\ (out # "err" /\ count_entries(lines) > 0) => bundle

\* restore_items up to its loop: the manifest is looked up and read
RestoreStart(ts, sel, ow) ==
    /\ Quiet
    /\ rs.n + qr.n < MaxRestores
    /\ \E io \in {"ok", "read_err", "no_home"} :
         rs' = IF metadata[ts] = NoManifest
               THEN [IdleRs EXCEPT !.n = rs.n + 1, !.ts = ts, !.items = sel,
                                   !.overwrite = ow, !.res = NotFound]
               ELSE IF io = "ok"
               THEN [IdleRs EXCEPT !.n = rs.n + 1, !.ts = ts, !.items = sel,
                                   !.overwrite = ow, !.pc = "loop", !.i = 1,
                                   !.meta = metadata[ts].items]
               ELSE [IdleRs EXCEPT !.n = rs.n + 1, !.ts = ts, !.items = sel,
                                   !.overwrite = ow,
                                   !.res = Err(IF io = "read_err"
                                               THEN "Fehler beim Lesen der Metadaten"
                                               ELSE "Home-Verzeichnis nicht gefunden")]
    /\ UNCHANGED <<bkvars, dl, vx, mxvars, fsvars, vfvars, qr, host, ext_log, installed, brewfile>>

\* one turn of the loop of restore_items: the item is looked up and restored by
\* the branch of its identifier
RestoreItem ==
    LET r == rs
        item_path == r.items[r.i]
        k == find_item(r.meta, item_path)
        archive == r.meta[k].archive
        f == files[r.ts]
        target == resolve_target(item_path)
        e(note) == Entry(r.i, item_path, note)
        step(r2) == [r2 EXCEPT !.i = @ + 1]
    IN
    /\ r.pc = "loop"
    /\ r.i <= Len(r.items)
    /\ \/ /\ k = 0
          /\ rs' = step(push_unknown(r, e("Nicht im Backup gefunden")))
          /\ UNCHANGED <<host, ext_log, installed, tmp_files>>
       \/ /\ k # 0
          /\ item_path \in ReservedIds
          /\ \E out \in {"ok0", "ok1", "err"}, left \in BOOLEAN, bundle \in BOOLEAN :
               /\ ~FileExists(f, archive) => out = "err"
               /\ out # "err" => ~left
               /\ IF item_path = Str_homebrew_packages
                  THEN homebrew_outcome(FileExists(f, archive) /\ f[archive] = "gz:brew",
                                        brewfile, out, bundle)
                  ELSE ~bundle
               /\ rs' = step([(IF out = "err" THEN push_error(r, e("reserved"))
                               ELSE push_restored(r, e(out)))
                                EXCEPT !.bundles = @ + (IF bundle THEN 1 ELSE 0)])
               /\ installed' = IF out = "ok1" THEN installed \cup {item_path}
                               ELSE installed
               /\ tmp_files' = IF left THEN tmp_files \cup {ScratchDir(item_path)}
                               ELSE tmp_files \ {ScratchDir(item_path)}
          /\ UNCHANGED <<host, ext_log>>
       \/ /\ k # 0
          /\ item_path \notin ReservedIds
          /\ ~FileExists(f, archive)
          /\ rs' = step(push_error(r, e("Archiv nicht gefunden")))
          /\ UNCHANGED <<host, ext_log, installed, tmp_files>>
       \/ /\ k # 0
          /\ item_path \notin ReservedIds
          /\ FileExists(f, archive)
          /\ skip_existing(PathExists(host, target), r.overwrite)
          /\ rs' = step(push_skipped(r, e("Existiert bereits")))
          /\ UNCHANGED <<host, ext_log, installed, tmp_files>>
       \/ /\ k # 0
          /\ item_path \notin ReservedIds
          /\ FileExists(f, archive)
          /\ ~skip_existing(PathExists(host, target), r.overwrite)
          /\ \E io \in ExtractIo(host, target, r.overwrite) :
               LET x == extract_tar_gz(host, f[archive], target, r.overwrite, io) IN
               /\ host' = x.host
               /\ ext_log' = IF x.invoked
                             THEN Append(ext_log, [archive |-> archive,
                                                   target |-> target,
                                                   overwrite |-> r.overwrite])
                             ELSE ext_log
               /\ rs' = step(IF x.ok THEN push_restored(r, e(""))
                             ELSE push_error(r, e(x.err)))
          /\ UNCHANGED <<installed, tmp_files>>
    /\ UNCHANGED <<bkvars, dl, vx, mxvars, vfvars, qr, brewfile, data_dirs, files, metadata, latest,
                   inv_dirs>>

\* the loop of restore_items is done: the three lists and their counts are returned
RestoreReturn ==
    /\ rs.pc = "loop"
    /\ rs.i > Len(rs.items)
    /\ rs' = [rs EXCEPT !.pc = "idle",
                        !.res = Ok(RestoreResult(rs.restored, rs.skipped, rs.errors))]
    /\ UNCHANGED <<bkvars, dl, vx, mxvars, fsvars, vfvars, qr, host, ext_log, installed, brewfile>>

(***************************************************************************)
(* quick_restore_essentials.                                                *)
(***************************************************************************)
essential_brews ==
    <<<<"g","i","t">>,
      <<"v","i","m">>,
      <<"p","y","t","h","o","n">>,
      <<"n","o","d","e">>,
      <<"c","u","r","l">>,
      <<"w","g","e","t">>,
      <<"h","t","o","p">>,
      <<"t","r","e","e">>,
      <<"j","q">>,
      <<"r","i","p","g","r","e","p">>,
      <<"f","d">>,
      <<"b","a","t">>,
      <<"f","z","f">>>>

essential_casks ==
    <<<<"v","i","s","u","a","l","-","s","t","u","d","i","o","-","c","o","d","e">>,
      <<"i","t","e","r","m","2">>,
      <<"g","o","o","g","l","e","-","c","h","r","o","m","e">>,
      <<"f","i","r","e","f","o","x">>,
      <<"1","p","a","s","s","w","o","r","d">>,
      <<"r","e","c","t","a","n","g","l","e">>,
      <<"a","l","f","r","e","d">>>>

\* one line of the package list: brew "<name>", cask "<name>", or another line
BrewLine(kind, name) == [kind |-> kind, name |-> name]

Pkg_git_lfs == <<"g","i","t","-","l","f","s">>
Pkg_vim == <<"v","i","m">>
Pkg_zsh == <<"z","s","h">>
Pkg_firefox == <<"f","i","r","e","f","o","x">>
Pkg_xcode == <<"X","c","o","d","e">>

\* the package lists a backed-up machine may have had
BrewfileChoices ==
    {<<>>,
     <<BrewLine("mas", Pkg_xcode)>>,
     <<BrewLine("brew", Pkg_git_lfs)>>,
     <<BrewLine("tap", Pkg_zsh), BrewLine("brew", Pkg_vim),
       BrewLine("cask", Pkg_firefox)>>,
     <<BrewLine("brew", Pkg_git_lfs), BrewLine("brew", Pkg_vim),
       BrewLine("brew", Pkg_zsh), BrewLine("cask", Pkg_firefox)>>}

\* str::contains
contains(b, pkg) ==
    \E i \in 1..(Len(b) + 1) :
        i + Len(pkg) - 1 <= Len(b) /\ SubSeq(b, i, i + Len(pkg) - 1) = pkg

\* the names of the lines of one kind: line.split('"').nth(1)
names_of(lines, kind) ==
    {lines[j].name : j \in {j \in 1..Len(lines) : lines[j].kind = kind}}

\* essential.iter().filter(|p| in_backup.iter().any(|b| b.contains(p)))
to_install(essential, in_backup) ==
    LET wanted(pkg) == \E b \in in_backup : contains(b, pkg)
    IN  SelectSeq(essential, wanted)

\* quick_restore_essentials up to its install loops: the package tool is
\* located, the manifest looked up, the package list unpacked and read
QuickStart(ts) ==
    /\ Quiet
    /\ rs.n + qr.n < MaxRestores
    /\ \E brew_found \in BOOLEAN, io \in {"ok", "read_err"}, untar_ok \in BOOLEAN :
         LET m == metadata[ts]
             k == find_item(m.items, Str_homebrew_packages)
             f == files[ts]
             have == /\ k # 0
                     /\ untar_ok
                     /\ FileExists(f, m.items[k].archive)
                     /\ f[m.items[k].archive] = "gz:brew"
             lines == IF have THEN brewfile ELSE <<>>
         IN
         /\ qr' = IF ~brew_found
                  THEN [IdleQr EXCEPT !.n = qr.n + 1,
                                      !.res = Err("Homebrew nicht gefunden")]
                  ELSE IF m = NoManifest
                  THEN [IdleQr EXCEPT !.n = qr.n + 1, !.res = NotFound]
                  ELSE IF io # "ok"
                  THEN [IdleQr EXCEPT !.n = qr.n + 1,
                                      !.res = Err("Fehler beim Lesen der Metadaten")]
                  ELSE [IdleQr EXCEPT !.n = qr.n + 1, !.pc = "brews", !.k = 1,
                                      !.brews = to_install(essential_brews,
                                                           names_of(lines, "brew")),
                                      !.casks = to_install(essential_casks,
                                                           names_of(lines, "cask"))]
         /\ tmp_files' = IF brew_found /\ m # NoManifest /\ io = "ok" /\ k # 0
                         THEN tmp_files \ {"macos-backup-quick-restore"}
                         ELSE tmp_files
    /\ UNCHANGED <<bkvars, dl, vx, mxvars, vfvars, rs, host, ext_log, installed, brewfile,
                   data_dirs, files, metadata, latest, inv_dirs>>

\* how one install by the package tool may end: it exits with success ("ok"), or
\* with success and "already installed" in its stderr ("ok_already"), or with a
\* failure and that message ("already"), or with another failure, or it cannot
\* be started
InstallOutcomes == {"ok", "ok_already", "already", "fail", "spawn_err"}

\* the output of the install command contained "already installed"
SaidAlready(out) == out \in {"ok_already", "already"}

\* the outcome of one install goes to one list: match output { Ok(o) if
\* o.status.success() => restored, Ok(o) => skipped or errors by the stderr,
\* Err(e) => errors }  (already: the installs whose output held the message)
record_install(q, kind, pkg, out) ==
    LET e == Entry(q.current + 1, pkg, kind)
        q1 == [q EXCEPT !.already = IF SaidAlready(out) THEN @ \cup {e.i} ELSE @]
    IN
    CASE out \in {"ok", "ok_already"} -> [q1 EXCEPT !.restored = Append(@, e)]
      [] out = "already" -> [q1 EXCEPT !.skipped = Append(@, e)]
      [] OTHER -> [q1 EXCEPT !.errors = Append(@, e)]

\* one turn of the loop over brews_to_install, or its end
QuickBrew ==
    /\ qr.pc = "brews"
    /\ IF qr.k <= Len(qr.brews)
       THEN \E out \in InstallOutcomes :
              /\ qr' = [record_install(qr, "brew", qr.brews[qr.k], out)
                          EXCEPT !.k = qr.k + 1, !.current = qr.current + 1]
              /\ installed' = IF out = "ok" THEN installed \cup {qr.brews[qr.k]}
                              ELSE installed
       ELSE /\ qr' = [qr EXCEPT !.pc = "casks", !.k = 1]
            /\ UNCHANGED installed
    /\ UNCHANGED <<bkvars, dl, vx, mxvars, fsvars, vfvars, rs, host, ext_log, brewfile>>

\* one turn of the loop over casks_to_install
QuickCask ==
    /\ qr.pc = "casks"
    /\ qr.k <= Len(qr.casks)
    /\ \E out \in InstallOutcomes :
         /\ qr' = [record_install(qr, "cask", qr.casks[qr.k], out)
                     EXCEPT !.k = qr.k + 1, !.current = qr.current + 1]
         /\ installed' = IF out = "ok" THEN installed \cup {qr.casks[qr.k]}
                         ELSE installed
    /\ UNCHANGED <<bkvars, dl, vx, mxvars, fsvars, vfvars, rs, host, ext_log, brewfile>>

\* both loops are done: the three lists and their counts are returned
QuickReturn ==
    /\ qr.pc = "casks"
    /\ qr.k > Len(qr.casks)
    /\ qr' = [qr EXCEPT !.pc = "idle",
                        !.res = Ok(RestoreResult(qr.restored, qr.skipped, qr.errors))]
    /\ UNCHANGED <<bkvars, dl, vx, mxvars, fsvars, vfvars, rs, host, ext_log, installed, brewfile>>

(***************************************************************************)
(* delete_backup.                                                           *)
(***************************************************************************)
\* the name of a run directory: the timestamp formatted with zero-padded fields
\* of fixed width (the seconds field of "%Y%m%d-%H%M%S"; the fields before it are
\* the same for all timestamps of the model)
dir_name(t) == <<(t + 10) \div 10, (t + 10) % 10>>

\* the timestamp a run directory name stands for
stamp_of(name) == CHOOSE t \in Stamps : dir_name(t) = name

\* String::cmp(a, b) = Less: the byte-wise lexicographic order
str_less(a, b) ==
    \/ \E k \in 1..Len(a) :
          /\ k <= Len(b)
          /\ SubSeq(a, 1, k - 1) = SubSeq(b, 1, k - 1)
          /\ a[k] < b[k]
    \/ Len(a) < Len(b) /\ a = SubSeq(b, 1, Len(a))

\* (the first of the names sorted upwards)
first_ascending(names) == CHOOSE n \in names : \A m \in names : ~str_less(m, n)

\* backups.sort_by(|a, b| b.cmp(a)); backups.first()
first_descending(names) == CHOOSE n \in names : \A m \in names : ~str_less(n, m)

\* the pointer after the run it named was deleted: the first of the remaining run
\* directories sorted downwards, no latest.json when none remains
new_latest(remaining) ==
    IF remaining = {} THEN NoLatest
    ELSE <<stamp_of(first_descending({dir_name(t) : t \in remaining}))>>

\* delete_backup: the run directory must exist; it is removed with all it holds,
\* then the inventories directory of the run, then latest.json is rewritten if
\* it named the run
DeleteBackup(ts) ==
    /\ Quiet
    /\ dl.n < MaxDeletes
    /\ \E io \in {"ok", "remove_err"} :
         IF ts \notin data_dirs
         THEN /\ dl' = [n |-> dl.n + 1, ts |-> ts, res |-> Err("nicht gefunden")]
              /\ UNCHANGED fsvars
         ELSE IF io = "remove_err"
         THEN /\ dl' = [n |-> dl.n + 1, ts |-> ts, res |-> Err("remove_dir_all")]
              /\ UNCHANGED fsvars
         ELSE /\ dl' = [n |-> dl.n + 1, ts |-> ts, res |-> Ok("")]
              /\ data_dirs' = data_dirs \ {ts}
              /\ files' = [files EXCEPT ![ts] = NoFiles]
              /\ metadata' = [metadata EXCEPT ![ts] = NoManifest]
              /\ inv_dirs' = inv_dirs \ {ts}
              /\ latest' = IF latest = <<ts>> THEN new_latest(data_dirs \ {ts})
                           ELSE latest
              /\ UNCHANGED tmp_files
    /\ UNCHANGED <<bkvars, vx, mxvars, vfvars, rsvars>>

BackupStep(p) ==
    \/ \E ds \in DirLists : StartBackup(p, ds)
    \/ LoopHead(p)
    \/ TgzSpawn(p)
    \/ TgzStorePid(p)
    \/ ChildExit(p)
    \/ TgzWait(p)
    \/ TgzClearPid(p)
    \/ TgzCheck(p)
    \/ PostArchive(p)
    \/ ArchiveInventories(p)
    \/ OptCache(p)
    \/ OptSafari(p)
    \/ WriteManifest(p)
    \/ UpdateLatest(p)

CancelStep == CancelStore \/ CancelLoad \/ CancelKill \/ CancelClear

Next ==
    \/ \E p \in DOMAIN bk : BackupStep(p)
    \/ CancelStep

Spec == Init /\ [][Next]_vars

(***************************************************************************)
(* A run that nobody cancels; afterwards its archives may be changed from   *)
(* outside and the run verified.                                            *)
(***************************************************************************)
NextRun ==
    \/ \E p \in DOMAIN bk : BackupStep(p)
    \/ \E ts \in data_dirs : VerifySeq(ts)
    \/ \E ts \in data_dirs : \E name \in DOMAIN files[ts] : Tamper(ts, name)

SpecRun == Init /\ [][NextRun]_vars

(***************************************************************************)
(* Verification of a run directory found on the volume.                     *)
(***************************************************************************)
\* what a run directory may hold for one manifest item
ItemKinds == {"ok", "mismatch", "missing", "unreadable", "short"}

ItemArchive(k) == <<"i">> \o [j \in 1..k |-> "x"] \o <<".">> \o archive_ext
ItemPath(k) == <<"/", "p">> \o [j \in 1..k |-> "x"]

\* the manifest item k of a run directory, by kind: "short" is an item whose
\* stored hash has fewer than HashPrefix characters
KindItem(k, kind) ==
    BackupItem(ItemPath(k), ItemArchive(k),
               IF kind = "short" THEN SubSeq(Digest("tar:/a/Doc"), 1, ShortLen)
               ELSE Digest("tar:/a/Doc"),
               2, 3)

\* the files of the run directory, by the kinds of its items
KindFiles(kinds) ==
    LET present == {k \in 1..Len(kinds) : kinds[k] # "missing"}
        idx(n) == CHOOSE k \in present : ItemArchive(k) = n
    IN  [n \in {ItemArchive(k) : k \in present} |->
           CASE kinds[idx(n)] = "ok" -> "tar:/a/Doc"
             [] kinds[idx(n)] = "unreadable" -> EIO
             [] OTHER -> "tampered"]

\* at most MaxFailing items of a run directory are not "ok"
KindLists ==
    {kinds \in UNION {[1..n -> ItemKinds] : n \in 0..MaxItems} :
        Cardinality({k \in 1..Len(kinds) : kinds[k] # "ok"}) <= MaxFailing}

\* the volume holds one run directory: with a manifest and the files its items
\* name, or without a manifest
InitVerify ==
    /\ InitProgram
    /\ InitHost
    /\ data_dirs = {1}
    /\ inv_dirs = {1}
    /\ tmp_files = {}
    /\ \/ \E kinds \in KindLists :
            /\ metadata = [t \in Stamps |->
                             IF t = 1
                             THEN BackupMetadata(1, [k \in 1..Len(kinds) |->
                                                       KindItem(k, kinds[k])])
                             ELSE NoManifest]
            /\ files = [t \in Stamps |-> IF t = 1 THEN KindFiles(kinds) ELSE NoFiles]
            /\ latest = <<1>>
       \/ /\ metadata = [t \in Stamps |-> NoManifest]
          /\ files = [t \in Stamps |-> NoFiles]
          /\ latest = NoLatest

NextVerify ==
    \/ \E ts \in Times : VerifySeq(ts)
    \/ VerifyParStep
    \/ \E ts \in data_dirs : \E name \in DOMAIN files[ts] : Tamper(ts, name)

SpecVerify == InitVerify /\ [][NextVerify]_vars

(***************************************************************************)
(* Properties of create_backup under cancellation.                          *)
(***************************************************************************)
\* a step by which invocation p of create_backup returns
Returns(p) == bk[p].pc # "idle" /\ bk'[p].pc = "idle"

\* the two errors a cancelled run ends with: the orchestrator's, and
\* create_tar_gz's propagated by "?"
CancelOutcomes == {"Backup wurde abgebrochen", "Cancelled"}

\* every item's archive exists and its stored hash is the digest of the file
ManifestConsistent(m, f) ==
    \A k \in 1..Len(m.items) :
        /\ FileExists(f, m.items[k].archive)
        /\ hash_file(f, m.items[k].archive) = Ok(m.items[k].hash)

\* C1: when create_backup returns because a cancellation was observed while it
\* archived a configured directory (by create_tar_gz after the archiver ended, or
\* by the post-archive check), the archive file of that directory does not exist
\* in the run directory, and the run directory holds no metadata.json but what it
\* held before the run started (none, in a fresh run directory).
C1_CancelLeavesNoArchiveNoManifest ==
    [][\A p \in Procs :
         (Returns(p) /\ bk[p].pc \in {"tgz_check", "post"}
                     /\ bk'[p].outcome \in CancelOutcomes)
         => /\ ~FileExists(files'[bk[p].ts], bk[p].target)
            /\ metadata'[bk[p].ts] = bk[p].meta0]_vars

\* a run cancelled while archiving a directory has returned; its archive and a
\* manifest are absent
C1_Witness ==
    \E p \in Procs :
        /\ bk[p].pc = "idle"
        /\ bk[p].outcome \in CancelOutcomes
        /\ bk[p].detect \in {"tgz", "post"}
        /\ bk[p].target # <<>>
        /\ ~FileExists(files[bk[p].ts], bk[p].target)
        /\ metadata[bk[p].ts] = NoManifest

\* C2: whenever create_backup ends because of a cancellation, on every path by
\* which it is detected, BACKUP_CANCELLED is false when create_backup returns.
C2_FlagFalseAtCancelReturn ==
    [][\A p \in Procs :
         (Returns(p) /\ bk'[p].outcome \in CancelOutcomes)
         => BACKUP_CANCELLED' = FALSE]_vars

\* C3: a run in which an archiving step observed a cancellation never completes:
\* it does not end with the manifest returned.
C3_CancelSupersedes ==
    \A p \in Procs : bk[p].outcome = "Ok" => bk[p].detect = "none"

\* C4: when create_backup returns successfully, every item of the manifest it
\* wrote names an archive file that exists in the run directory and whose digest
\* is the item's hash.
C4_ManifestMatchesArchives ==
    [][\A p \in Procs :
         (Returns(p) /\ bk'[p].outcome = "Ok")
         => ManifestConsistent(metadata'[bk[p].ts], files'[bk[p].ts])]_vars

(***************************************************************************)
(* Restoring from a run directory found on the volume.                      *)
(***************************************************************************)
\* a manifest item as create_backup writes it for a configured path
GenericItem(d) ==
    BackupItem(d, archive_name(file_name(Expand(d))),
               Digest(ArchiveBytes(Expand(d))),
               ByteCode(ArchiveBytes(Expand(d))) + 1, SourceSize(Expand(d)))

ReservedBytes(id) ==
    CASE id = Str_homebrew_packages -> "gz:brew"
      [] id = Str_mas_apps -> "gz:mas"
      [] id = Str_vscode_extensions -> "gz:vscode"
      [] id = Str_homebrew_cache -> "tar:cache"
      [] OTHER -> "tar:safari"

\* a manifest item as create_backup writes it for a reserved identifier
ReservedItem(id) ==
    BackupItem(id, ReservedArchive(id), Digest(ReservedBytes(id)),
               ByteCode(ReservedBytes(id)) + 1, 1)

\* the reserved identifiers in the order create_backup pushes their items
ReservedSeq ==
    <<Str_homebrew_packages, Str_mas_apps, Str_vscode_extensions,
      Str_homebrew_cache, Str_safari_settings>>

\* an item of a run: not in the manifest; in the manifest with its archive
\* file; in the manifest, the archive file gone from the run directory
ItemStates == {"absent", "archived", "lost"}

RunItems(g1, g2, inv) ==
    (IF g1 # "absent" THEN <<GenericItem(Path_aDoc)>> ELSE <<>>)
    \o (IF g2 # "absent" THEN <<GenericItem(Path_note)>> ELSE <<>>)
    \o (IF inv # "absent" THEN [j \in 1..Len(ReservedSeq) |-> ReservedItem(ReservedSeq[j])]
        ELSE <<>>)

RunFiles(g1, g2, inv) ==
    LET f1 == IF g1 = "archived"
              THEN WriteFile(NoFiles, GenericItem(Path_aDoc).archive,
                             ArchiveBytes(Expand(Path_aDoc)))
              ELSE NoFiles
        f2 == IF g2 = "archived"
              THEN WriteFile(f1, GenericItem(Path_note).archive,
                             ArchiveBytes(Expand(Path_note)))
              ELSE f1
        rid(n) == CHOOSE id \in ReservedIds : ReservedArchive(id) = n
        names == IF inv = "archived" THEN {ReservedArchive(id) : id \in ReservedIds}
                 ELSE {}
    IN  [n \in (DOMAIN f2) \cup names |->
           IF n \in DOMAIN f2 THEN f2[n] ELSE ReservedBytes(rid(n))]

\* the machine restored to: each destination is there already, or not
HostChoices ==
    {[q \in D |-> "old"] : D \in SUBSET {Path_aDoc, resolve_target(Path_note)}}

\* the volume holds one run directory, the machine some of the destinations
InitRestore ==
    /\ InitProgram
    /\ installed = {}
    /\ data_dirs = {1}
    /\ inv_dirs = {1}
    /\ tmp_files = {}
    /\ \/ \E g1 \in ItemStates, g2 \in ItemStates, inv \in ItemStates,
             h \in HostChoices :
            /\ metadata = [t \in Stamps |->
                             IF t = 1 THEN BackupMetadata(1, RunItems(g1, g2, inv))
                             ELSE NoManifest]
            /\ files = [t \in Stamps |->
                          IF t = 1 THEN RunFiles(g1, g2, inv) ELSE NoFiles]
            /\ latest = <<1>>
            /\ host = h
            /\ brewfile = <<>>
       \/ \E b \in BrewfileChoices :
            /\ metadata = [t \in Stamps |->
                             IF t = 1
                             THEN BackupMetadata(1, RunItems("archived", "absent",
                                                             "archived"))
                             ELSE NoManifest]
            /\ files = [t \in Stamps |->
                          IF t = 1 THEN RunFiles("archived", "absent", "archived")
                          ELSE NoFiles]
            /\ latest = <<1>>
            /\ host = NoFiles
            /\ brewfile = b
       \/ /\ metadata = [t \in Stamps |-> NoManifest]
          /\ files = [t \in Stamps |-> NoFiles]
          /\ latest = NoLatest
          /\ host = NoFiles
          /\ brewfile = <<>>

\* the identifiers a selection may hold: configured paths (one of them not in any
\* manifest) and the reserved identifiers
SelIds == {Path_aDoc, Path_note, Path_gone} \cup ReservedIds

SelLists == UNION {[1..n -> SelIds] : n \in 0..MaxSel}

RestoreStep ==
    \/ \E ts \in Times, sel \in SelLists, ow \in BOOLEAN : RestoreStart(ts, sel, ow)
    \/ RestoreItem
    \/ RestoreReturn

QuickStep ==
    \/ \E ts \in Times : QuickStart(ts)
    \/ QuickBrew
    \/ QuickCask
    \/ QuickReturn

NextRestore == RestoreStep \/ QuickStep

SpecRestore == InitRestore /\ [][NextRestore]_vars

(***************************************************************************)
(* The three commands that look a run up by its timestamp, on a volume      *)
(* whose run directory has a manifest or lacks it.                          *)
(***************************************************************************)
InitCommands ==
    /\ InitProgram
    /\ installed = {}
    /\ brewfile = <<>>
    /\ data_dirs = {1}
    /\ inv_dirs = {1}
    /\ tmp_files = {}
    /\ \/ /\ metadata = [t \in Stamps |->
                           IF t = 1
                           THEN BackupMetadata(1, RunItems("archived", "lost", "absent"))
                           ELSE NoManifest]
          /\ files = [t \in Stamps |->
                        IF t = 1 THEN RunFiles("archived", "lost", "absent")
                        ELSE NoFiles]
          /\ latest = <<1>>
          /\ host \in HostChoices
       \/ /\ metadata = [t \in Stamps |-> NoManifest]
          /\ \E g1 \in {"absent", "archived"} :
               files = [t \in Stamps |-> IF t = 1 THEN RunFiles(g1, "absent", "absent")
                                        ELSE NoFiles]
          /\ latest = NoLatest
          /\ host \in HostChoices

NextCommands ==
    \/ \E ts \in Times : VerifySeq(ts)
    \/ VerifyParStep
    \/ RestoreStep

SpecCommands == InitCommands /\ [][NextCommands]_vars

(***************************************************************************)
(* Properties of verification.                                              *)
(***************************************************************************)
\* the archive names a returned VerifyResult reports as failed
FailedNames(res) ==
    {res.val.failed_files[k].archive : k \in 1..Len(res.val.failed_files)}

\* the failures a returned VerifyResult reports, as a set
FailedSet(res) == {res.val.failed_files[k] : k \in 1..Len(res.val.failed_files)}

\* the run of timestamp ts was completed successfully by create_backup
CompletedRun(ts) == \E p \in Procs : bk[p].outcome = "Ok" /\ bk[p].ts = ts

\* C5: a verification of a successfully completed run of which exactly one
\* archive file was changed, and nothing else, returns success = false, one
\* failed_files entry, which names that archive, and verified_files =
\* total_files - 1.
C5_TamperedArchiveFailsAlone ==
    \A i \in 1..Len(vlog) :
        (vlog[i].epoch = 1 /\ tampered[1].ts = vlog[i].ts /\ CompletedRun(vlog[i].ts))
        => /\ vlog[i].res.ok
           /\ vlog[i].res.val.success = FALSE
           /\ Len(vlog[i].res.val.failed_files) = 1
           /\ FailedNames(vlog[i].res) = {tampered[1].name}
           /\ vlog[i].res.val.verified_files = vlog[i].res.val.total_files - 1

\* two results agree: the same error or panic, or the same success, total_files,
\* verified_files and set of failed archive names
Agree(r1, r2) ==
    /\ r1.ok = r2.ok
    /\ IF r1.ok
       THEN /\ r1.val.success = r2.val.success
            /\ r1.val.total_files = r2.val.total_files
            /\ r1.val.verified_files = r2.val.verified_files
            /\ FailedNames(r1) = FailedNames(r2)
       ELSE r1.val = r2.val

\* C6: on the same manifest and run directory, verify_backup and
\* verify_backup_parallel report the same set of failed archive names and the
\* same total_files, verified_files and success.
C6_SequentialParallelAgree ==
    \A i \in 1..Len(vlog), j \in 1..Len(vlog) :
        (vlog[i].mode = "seq" /\ vlog[j].mode = "par"
            /\ vlog[i].ts = vlog[j].ts /\ vlog[i].epoch = vlog[j].epoch)
        => Agree(vlog[i].res, vlog[j].res)

\* a step of a verification, in either mode
VerifyStepTaken == vlog' # vlog \/ pv' # pv

\* two results of one mode are the same: the same error or panic, or the same
\* success flag, verified_files count and set of failures
SameVerdict(r1, r2) ==
    /\ r1.ok = r2.ok
    /\ IF r1.ok
       THEN /\ r1.val.success = r2.val.success
            /\ r1.val.verified_files = r2.val.verified_files
            /\ FailedSet(r1) = FailedSet(r2)
       ELSE r1.val = r2.val

\* C7: no step of a verification, in either mode, changes the manifest, an
\* archive file, latest.json or anything else on the volume; and a verification
\* returns what an earlier verification of the same mode returned for that run
\* when the run was not changed in between.
C7_VerificationIdempotent ==
    [][VerifyStepTaken
       => /\ fsvars' = fsvars
          /\ \A i \in 1..Len(vlog) :
                (Len(vlog') = Len(vlog) + 1
                    /\ vlog[i].mode = vlog'[Len(vlog')].mode
                    /\ vlog[i].ts = vlog'[Len(vlog')].ts
                    /\ vlog[i].epoch = vlog'[Len(vlog')].epoch)
                => SameVerdict(vlog[i].res, vlog'[Len(vlog')].res)]_vars

\* a run directory with failures, one of them under a poisoned mutex, was verified
\* twice in parallel mode with nothing changed in between
C7_Witness ==
    /\ Len(vlog) = 2
    /\ vlog[1].mode = "par" /\ vlog[2].mode = "par"
    /\ vlog[1].epoch = vlog[2].epoch
    /\ vlog[1].res.ok /\ vlog[1].res.val.verified_files < vlog[1].res.val.total_files
    /\ \E k \in 1..Len(metadata[vlog[1].ts].items) :
          check_item(files[vlog[1].ts], metadata[vlog[1].ts].items[k]).kind = "failed"

(***************************************************************************)
(* Properties of the lookup of a run and of restore.                        *)
(***************************************************************************)
\* the single error of a run that is not found
IsNotFound(r) == ~r.ok /\ r.val = "Backup nicht gefunden"

\* nothing on the volume, in the temp directory or on the machine changes
Untouched == fsvars' = fsvars /\ host' = host /\ installed' = installed

\* a verification of the run ts returns in this step
VerifyReturns(ts) == Len(vlog') = Len(vlog) + 1 /\ vlog'[Len(vlog')].ts = ts

\* restore_items is called for the run ts in this step
RestoreCalled(ts) == rs.pc = "idle" /\ rs'.n = rs.n + 1 /\ rs'.ts = ts

\* C8: when the run directory of a timestamp has no metadata.json, verify_backup,
\* verify_backup_parallel and restore_items each return the one error "Backup
\* nicht gefunden" for the whole operation (no result with per-item entries), and
\* the call changes nothing on the filesystem.
C8_MissingManifestIsNotFound ==
    [][\A ts \in Times :
         metadata[ts] = NoManifest
         => /\ VerifyReturns(ts)
                 => IsNotFound(vlog'[Len(vlog')].res) /\ Untouched
            /\ RestoreCalled(ts)
                 => rs'.pc = "idle" /\ IsNotFound(rs'.res) /\ Untouched]_vars

\* all three commands were called for a run without manifest and returned the error
C8_Witness ==
    /\ \E ts \in Times : metadata[ts] = NoManifest /\ rs.ts = ts /\ rs.n = 1
    /\ IsNotFound(rs.res)
    /\ \E i \in 1..Len(vlog) : vlog[i].mode = "seq" /\ IsNotFound(vlog[i].res)
    /\ \E j \in 1..Len(vlog) : vlog[j].mode = "par" /\ IsNotFound(vlog[j].res)

\* how many entries of a list belong to position i of the selection
Occurrences(list, i) == Cardinality({k \in 1..Len(list) : list[k].i = i})

\* position i has one entry, in one of the three lists
InExactlyOne(r, i) ==
    Occurrences(r.restored, i) + Occurrences(r.skipped, i)
        + Occurrences(r.errors, i) = 1

\* the counts of a returned RestoreResult are the lengths of its lists
CountsMatch(v) ==
    /\ v.restored_count = Len(v.restored)
    /\ v.skipped_count = Len(v.skipped)
    /\ v.error_count = Len(v.errors)

\* C9: in the result restore_items returns, every position of the selection has
\* exactly one entry, in exactly one of restored, skipped and errors, and the entry
\* is about the identifier selected there; each count is the length of its list
\* and the counts add up to the number of selected identifiers.  In
\* quick_restore_essentials every install attempted so far has exactly one entry
\* in exactly one list, and the result returns these lists with their lengths.
C9_OneOutcomePerItem ==
    /\ rs.res.ok
       => /\ \A i \in 1..Len(rs.items) : InExactlyOne(rs.res.val, i)
          /\ \A l \in {rs.res.val.restored, rs.res.val.skipped, rs.res.val.errors} :
               \A k \in 1..Len(l) :
                  l[k].i \in 1..Len(rs.items) /\ l[k].item = rs.items[l[k].i]
          /\ CountsMatch(rs.res.val)
          /\ rs.res.val.restored_count + rs.res.val.skipped_count
                + rs.res.val.error_count = Len(rs.items)
    /\ \A i \in 1..qr.current : InExactlyOne(qr, i)
    /\ Len(qr.restored) + Len(qr.skipped) + Len(qr.errors) = qr.current
    /\ qr.res.ok
       => /\ CountsMatch(qr.res.val)
          /\ qr.res.val.restored = qr.restored
          /\ qr.res.val.skipped = qr.skipped
          /\ qr.res.val.errors = qr.errors
          /\ qr.current = Len(qr.brews) + Len(qr.casks)

\* restore_items returned for a selection of MaxSel identifiers, one of them
\* unknown to the manifest and one skipped
C9_Witness ==
    /\ rs.res.ok
    /\ Len(rs.items) = MaxSel
    /\ rs.res.val.skipped_count >= 1
    /\ \E k \in 1..Len(rs.res.val.errors) :
          rs.res.val.errors[k].note = "Nicht im Backup gefunden"

\* the step restores a generic identifier that the manifest holds and whose
\* destination exists
GenericOntoExisting ==
    /\ rs.pc = "loop"
    /\ rs.i <= Len(rs.items)
    /\ rs'.i = rs.i + 1
    /\ rs.items[rs.i] \notin ReservedIds
    /\ find_item(rs.meta, rs.items[rs.i]) # 0
    /\ PathExists(host, resolve_target(rs.items[rs.i]))

\* the archive file of that item is in the run directory
ArchivePresent ==
    FileExists(files[rs.ts], rs.meta[find_item(rs.meta, rs.items[rs.i])].archive)

\* the step records the item as skipped and does nothing else
SkippedUntouched ==
    /\ rs'.skipped = Append(rs.skipped, Entry(rs.i, rs.items[rs.i], "Existiert bereits"))
    /\ rs'.restored = rs.restored
    /\ rs'.errors = rs.errors
    /\ ext_log' = ext_log
    /\ Untouched

\* the step starts an extractor for the item
ExtractorInvoked ==
    /\ Len(ext_log') = Len(ext_log) + 1
    /\ ext_log'[Len(ext_log')].target = resolve_target(rs.items[rs.i])
    /\ ext_log'[Len(ext_log')].overwrite

\* C10 as stated: a generic item that the manifest holds and whose destination
\* exists is skipped, with no extractor run and nothing changed, when overwrite is
\* false, and handed to the extractor when overwrite is true.
C10_ExistingDestination ==
    [][GenericOntoExisting
       => IF rs.overwrite THEN ExtractorInvoked ELSE SkippedUntouched]_vars

\* C10, for items whose archive file exists in the run directory: such an item is
\* skipped, with no extractor run and nothing changed, when overwrite is false,
\* and handed to the extractor when overwrite is true.
C10_ExistingDestinationWithArchive ==
    [][(GenericOntoExisting /\ ArchivePresent)
       => IF rs.overwrite THEN ExtractorInvoked ELSE SkippedUntouched]_vars

\* a generic item was skipped because its destination exists
C10_Witness ==
    /\ ~rs.overwrite
    /\ ext_log = <<>>
    /\ \E k \in 1..Len(rs.skipped) :
          /\ rs.skipped[k].item \notin ReservedIds
          /\ find_item(rs.meta, rs.skipped[k].item) # 0
          /\ PathExists(host, resolve_target(rs.skipped[k].item))

(***************************************************************************)
(* Per-item errors of restore_items.                                        *)
(***************************************************************************)
\* a turn of the loop of restore_items
RestoreTurn == rs.pc = "loop" /\ rs.i <= Len(rs.items) /\ rs' # rs

\* the turn adds one entry, about the identifier at the current position, to the
\* errors and leaves the other lists alone
ErrorForCurrentOnly ==
    /\ Len(rs'.errors) = Len(rs.errors) + 1
    /\ SubSeq(rs'.errors, 1, Len(rs.errors)) = rs.errors
    /\ rs'.errors[Len(rs'.errors)].i = rs.i
    /\ rs'.errors[Len(rs'.errors)].item = rs.items[rs.i]
    /\ rs'.restored = rs.restored
    /\ rs'.skipped = rs.skipped

\* the loop goes on with the next position of the same selection
GoesOn ==
    /\ rs'.pc = "loop"
    /\ rs'.i = rs.i + 1
    /\ rs'.items = rs.items
    /\ rs'.res = rs.res

\* C11: in the loop of restore_items a selected identifier that no manifest item
\* has as its path, a generic item whose archive file is missing, and any turn
\* that records an error, add one error entry for the identifier at that position
\* and nothing else to the lists; the loop then goes on with the next position,
\* and when it ends restore_items returns Ok with a result in which every
\* position of the selection has an entry.
C11_ItemErrorsAreNotFatal ==
    [][/\ RestoreTurn
          => /\ GoesOn
             /\ (\/ find_item(rs.meta, rs.items[rs.i]) = 0
                 \/ rs'.errors # rs.errors)
                => ErrorForCurrentOnly
             /\ find_item(rs.meta, rs.items[rs.i]) = 0
                => rs'.errors[Len(rs'.errors)].note = "Nicht im Backup gefunden"
       /\ (rs.pc = "loop" /\ rs'.pc = "idle")
          => /\ rs'.res.ok
             /\ \A i \in 1..Len(rs.items) :
                   Occurrences(rs'.res.val.restored, i)
                     + Occurrences(rs'.res.val.skipped, i)
                     + Occurrences(rs'.res.val.errors, i) >= 1]_vars

\* restore_items returned a result for a selection whose first identifier ended as
\* an error and whose last identifier was restored after it
C11_Witness ==
    /\ rs.pc = "idle"
    /\ rs.res.ok
    /\ Len(rs.items) = MaxSel
    /\ \E k \in 1..Len(rs.res.val.errors) : rs.res.val.errors[k].i = 1
    /\ \E k \in 1..Len(rs.res.val.restored) : rs.res.val.restored[k].i = MaxSel

(***************************************************************************)
(* Properties of a backup run: failures, reserved items, manifest, pointer. *)
(***************************************************************************)
\* C12: a failure to archive or to digest one configured directory does not end
\* the run while configured directories remain: create_backup returns from the
\* directory loop, with a directory still to come, only on a cancellation.
C12_DirectoryFailureIsNotFatal ==
    [][\A p \in Procs :
         (Returns(p) /\ InDirectoryLoop(p) /\ bk[p].idx < Len(bk[p].dirs))
         => bk'[p].outcome \in CancelOutcomes]_vars

\* the identifiers of the three inventory snapshots
InventoryIds == {Str_homebrew_packages, Str_mas_apps, Str_vscode_extensions}

\* the manifest m has an item of path id
HasItem(m, id) == \E k \in 1..Len(m.items) : m.items[k].path = id

\* C13: when create_backup returns successfully, the manifest of its run has an
\* item for each of homebrew-packages, mas-apps and vscode-extensions, whatever
\* the inventory collectors returned.
C13_ReservedItemsAlwaysPresent ==
    [][\A p \in Procs :
         (Returns(p) /\ bk'[p].outcome = "Ok")
         => \A id \in InventoryIds : HasItem(metadata'[bk[p].ts], id)]_vars

\* invocation p was configured with two different paths that both exist
TwoExistingDirectories(p) ==
    /\ Len(bk[p].dirs) = 2
    /\ bk[p].dirs[1] # bk[p].dirs[2]
    /\ \A k \in 1..2 : SourceKind(Expand(bk[p].dirs[k])) # "none"

\* the on-disk sizes of the configured paths of invocation p, added up
ConfiguredSize(p) ==
    SourceSize(Expand(bk[p].dirs[1])) + SourceSize(Expand(bk[p].dirs[2]))

\* C14: when a run over two existing configured directories returns successfully,
\* its manifest has at least 5 items (the two directories and the three inventory
\* snapshots), its total_source_size_bytes is the sum of the two directories'
\* on-disk sizes, and latest.json names the run's timestamp.
C14_FreshBackupScenario ==
    [][\A p \in Procs :
         (Returns(p) /\ bk'[p].outcome = "Ok" /\ TwoExistingDirectories(p))
         => /\ Len(metadata'[bk[p].ts].items) >= 5
            /\ metadata'[bk[p].ts].total_source_size_bytes = ConfiguredSize(p)
            /\ latest' = <<bk[p].ts>>]_vars

(***************************************************************************)
(* A volume that holds the runs of earlier sessions: runs are deleted.      *)
(***************************************************************************)
\* the manifest and the files of a completed run of timestamp t
OldManifest(t) == BackupMetadata(t, RunItems("archived", "absent", "absent"))
OldFiles == RunFiles("archived", "absent", "absent")

\* the volume holds run directories of some timestamps; some of them are of
\* completed runs and hold a manifest, the others of runs that failed or were
\* cancelled; latest.json names one of the directories or does not exist
InitVolume ==
    /\ InitProgram
    /\ InitHost
    /\ tmp_files = {}
    /\ \E dirs \in SUBSET Stamps :
         /\ data_dirs = dirs
         /\ inv_dirs = dirs
         /\ \E done \in SUBSET dirs :
              /\ metadata = [t \in Stamps |->
                               IF t \in done THEN OldManifest(t) ELSE NoManifest]
              /\ files = [t \in Stamps |-> IF t \in done THEN OldFiles ELSE NoFiles]
         /\ latest \in {NoLatest} \cup {<<t>> : t \in dirs}

NextDelete == \E ts \in Stamps : DeleteBackup(ts)

SpecDelete == InitVolume /\ [][NextDelete]_vars

(***************************************************************************)
(* Properties of delete_backup.                                             *)
(***************************************************************************)
\* delete_backup(ts) is called in this step and removes the run
Deleted(ts) == dl'.n = dl.n + 1 /\ dl'.ts = ts /\ dl'.res.ok

\* a is not below b in the lexicographic order of the directory names
NameAtLeast(a, b) == ~str_less(dir_name(a), dir_name(b))

\* C16: when delete_backup removes the run that latest.json names, latest.json
\* afterwards names the remaining run directory whose name is the greatest in
\* lexicographic order, and does not exist when no run directory remains; when it
\* removes another run, latest.json is unchanged; either way the run's data
\* directory, with its manifest and files, and its inventories directory are gone
\* and no other run directory is touched.
C16_DeleteRepointsLatest ==
    [][\A ts \in Stamps :
         Deleted(ts)
         => /\ ts \in data_dirs
            /\ ts \notin data_dirs' /\ ts \notin inv_dirs'
            /\ metadata'[ts] = NoManifest /\ files'[ts] = NoFiles
            /\ data_dirs' = data_dirs \ {ts}
            /\ \A t \in Stamps \ {ts} : metadata'[t] = metadata[t] /\ files'[t] = files[t]
            /\ IF latest # <<ts>> THEN latest' = latest
               ELSE IF data_dirs' = {} THEN latest' = NoLatest
               ELSE /\ Len(latest') = 1
                    /\ latest'[1] \in data_dirs'
                    /\ \A t \in data_dirs' : NameAtLeast(latest'[1], t)]_vars

\* the run latest.json named was deleted while two other run directories
\* remained, and latest.json now names the later of them
C16_Witness ==
    /\ dl.n = 1 /\ dl.res.ok
    /\ Cardinality(data_dirs) = 2
    /\ latest # NoLatest
    /\ latest[1] \in data_dirs
    /\ \E t \in data_dirs : t < latest[1]
    /\ dl.ts > latest[1]

(***************************************************************************)
(* A session on a volume that may hold completed runs: one made before the  *)
(* session, and one made within the second the model's clock starts at.     *)
(***************************************************************************)
\* the timestamps of the runs the volume may hold when the session starts
SessionStamps == {0, 1}

\* the package list the inventory snapshots of the session hold
SessionBrewfile ==
    <<BrewLine("brew", Pkg_vim), BrewLine("cask", Pkg_firefox)>>

InitSession ==
    /\ InitProgram
    /\ host = SourceTree
    /\ installed = {}
    /\ brewfile = SessionBrewfile
    /\ tmp_files = {}
    /\ \E dirs \in SUBSET SessionStamps :
         /\ data_dirs = dirs
         /\ inv_dirs = dirs
         /\ metadata = [t \in Stamps |->
                          IF t \in dirs THEN OldManifest(t) ELSE NoManifest]
         /\ files = [t \in Stamps |-> IF t \in dirs THEN OldFiles ELSE NoFiles]
         /\ latest = new_latest(dirs)

\* the configurations of the session: at most one path
SessionDirLists == {ds \in DirLists : Len(ds) <= 1}

\* the selections restored in the session
SessionSelLists == {<<Path_aDoc>>, <<Path_bdoc, Str_homebrew_packages>>}

\* the steps of a run of create_backup after its start
RunStep(p) ==
    \/ LoopHead(p)
    \/ TgzSpawn(p)
    \/ TgzStorePid(p)
    \/ ChildExit(p)
    \/ TgzWait(p)
    \/ TgzClearPid(p)
    \/ TgzCheck(p)
    \/ PostArchive(p)
    \/ ArchiveInventories(p)
    \/ OptCache(p)
    \/ OptSafari(p)
    \/ WriteManifest(p)
    \/ UpdateLatest(p)

SessionBackup ==
    \E p \in DOMAIN bk : (\E ds \in SessionDirLists : StartBackup(p, ds)) \/ RunStep(p)

\* a run that may be cancelled
NextPointer == SessionBackup \/ CancelStep

SpecPointer == InitSession /\ [][NextPointer]_vars

\* the configurations of the runs after which commands are issued
ManifestDirLists == {<<>>, <<Path_bdoc>>}

\* the commands issued so far on the runs of the volume
LaterOps == Len(vlog) + (IF pv.pc # "idle" THEN 1 ELSE 0) + rs.n + qr.n + dl.n

\* a command may be issued: the run of the session has started (commands wait
\* until no other is running) and fewer than MaxLater were issued
MayCommand == nruns > 0 /\ LaterOps < MaxLater

\* a run, and after it at most MaxLater commands that work on the runs of the volume
NextManifest ==
    \/ \E p \in DOMAIN bk : (\E ds \in ManifestDirLists : StartBackup(p, ds)) \/ RunStep(p)
    \/ MayCommand /\ \E ts \in data_dirs : VerifySeq(ts)
    \/ MayCommand /\ \E ts \in data_dirs : ParStart(ts)
    \/ ParSpawn
    \/ \E k \in pv.pending : ParWorker(k)
    \/ ParJoin
    \/ ParReturn
    \/ MayCommand
       /\ \E ts \in data_dirs, sel \in SessionSelLists, ow \in BOOLEAN :
                 RestoreStart(ts, sel, ow)
    \/ RestoreItem
    \/ RestoreReturn
    \/ MayCommand /\ \E ts \in data_dirs : QuickStart(ts)
    \/ QuickBrew
    \/ QuickCask
    \/ QuickReturn
    \/ MayCommand /\ \E ts \in data_dirs : DeleteBackup(ts)

SpecManifest == InitSession /\ [][NextManifest]_vars

(***************************************************************************)
(* Properties of latest.json and of the manifest over a session.            *)
(***************************************************************************)
\* C15: latest.json changes only in the step by which a run of create_backup
\* returns successfully, when the metadata.json of that run is already written
\* with the run's items; a successful run leaves latest.json naming its
\* timestamp; so a run that ends cancelled or failed, none of whose steps changes
\* latest.json, leaves it as it was before the run started.
C15_LatestAfterManifest ==
    [][/\ latest' # latest
          => \E p \in Procs :
                /\ Returns(p) /\ bk'[p].outcome = "Ok"
                /\ metadata[bk[p].ts] = BackupMetadata(bk[p].ts, bk[p].items)
       /\ \A p \in Procs :
             /\ (Returns(p) /\ bk'[p].outcome = "Ok")
                => /\ latest' = <<bk[p].ts>>
                   /\ metadata'[bk[p].ts] = BackupMetadata(bk[p].ts, bk[p].items)
             /\ (Returns(p) /\ bk'[p].outcome # "Ok") => latest' = latest]_vars

\* a run was cancelled while the volume held an older run: latest.json still names
\* the older run, though the directory of the cancelled run exists
C15_Witness ==
    \E p \in Procs :
        /\ bk[p].pc = "idle"
        /\ bk[p].outcome \in CancelOutcomes
        /\ bk[p].ts \in data_dirs
        /\ latest # NoLatest
        /\ latest[1] < bk[p].ts

\* C20: the metadata.json of a run directory comes into being only by the
\* manifest-writing step of the run of that timestamp, which follows all its
\* archiving steps and writes the run's items; once it exists no step changes it,
\* except a delete_backup of that run, which removes it.
C20_ManifestWrittenOnce ==
    [][\A ts \in Stamps :
         /\ (metadata[ts] = NoManifest /\ metadata'[ts] # NoManifest)
            => \E p \in Procs :
                  /\ bk[p].pc = "write" /\ bk[p].ts = ts
                  /\ metadata'[ts] = BackupMetadata(ts, bk[p].items)
         /\ (metadata[ts] # NoManifest /\ metadata'[ts] # metadata[ts])
            => Deleted(ts) /\ metadata'[ts] = NoManifest]_vars

(***************************************************************************)
(* Properties of cancel_backup and of create_tar_gz.                        *)
(***************************************************************************)
\* the signals sent to the process group of id pid
SignalsTo(log, pid) == {s \in log : s.pid = pid}

\* C17: the first step of cancel_backup sets BACKUP_CANCELLED to true.  When it
\* then loads a nonzero TAR_PID it sends a terminate signal to the process group
\* of the loaded id, which reaches the running archiver of that id and no other
\* process, and then stores 0 to TAR_PID and returns; when it loads 0 it returns
\* at once.  No other step sends a signal, so a cancel_backup that found no id
\* tracked sends none.
C17_CancelSignalsTrackedGroup ==
    [][/\ (cn.pc = "idle" /\ cn'.pc # "idle") => BACKUP_CANCELLED'
       /\ (cn.pc = "load" /\ cn' # cn)
          => IF TAR_PID # 0
             THEN cn'.pc = "kill" /\ cn'.pid = TAR_PID
             ELSE cn'.pc = "idle"
       /\ (cn.pc = "kill" /\ cn' # cn)
          => /\ cn.pid # 0
             /\ SignalsTo(kill_log', cn.pid) # {}
             /\ \A p \in Procs :
                   child'[p].sig = (child[p].sig
                                      \/ (child[p].pid = cn.pid /\ child[p].st = "running"))
             /\ cn'.pc = "clear"
       /\ (cn.pc = "clear" /\ cn' # cn) => TAR_PID' = 0 /\ cn'.pc = "idle"
       /\ (kill_log' # kill_log \/ \E p \in Procs : child'[p].sig /\ ~child[p].sig)
          => cn.pc = "kill"]_vars

\* cancel_backup has returned after it signalled the group of the running
\* archiver; the tracked id is 0 and the flag is set
C17_Witness ==
    /\ cn.pc = "idle" /\ cn.n > 0
    /\ \E s \in kill_log : s.live
    /\ TAR_PID = 0
    /\ BACKUP_CANCELLED

\* create_tar_gz is at its cancellation check and takes it in this step
TarChecked(p) == bk[p].pc = "tgz_check" /\ bk'[p].pc # "tgz_check"

\* C19: when create_tar_gz reaches its check after the wait, then, whatever the
\* exit code and whether or not the target exists: with BACKUP_CANCELLED set the
\* target file is gone afterwards and the result is the cancellation (the
\* directory loop returns "Cancelled", an optional item is left out); with the
\* flag clear, exit code 0 is a success; with the flag clear and a nonzero exit
\* code, the result is a success if the target exists and "tar failed" if it
\* does not.  A success sends the directory loop on to its digest step; a
\* failure ends create_backup with that error, and leaves an optional item out.
C19_TarClassification ==
    [][\A p \in Procs :
         TarChecked(p) =>
           LET b == bk[p]
               exists == FileExists(files[b.ts], b.target)
               success == IF b.ctx = "dir"
                          THEN bk'[p].pc = "post" /\ bk'[p].outcome = b.outcome
                          ELSE bk'[p].items = OptItem(b.items, files'[b.ts],
                                                 IF b.ctx = "cache" THEN Str_homebrew_cache
                                                 ELSE Str_safari_settings, b.target)
                               /\ bk'[p].detect = b.detect
               failure(e) == IF b.ctx = "dir"
                             THEN bk'[p].pc = "idle" /\ bk'[p].outcome = e
                             ELSE bk'[p].items = b.items
           IN
           IF BACKUP_CANCELLED
           THEN /\ ~FileExists(files'[b.ts], b.target)
                /\ failure("Cancelled")
                /\ bk'[p].detect = IF b.ctx = "dir" THEN "tgz" ELSE "opt"
           ELSE /\ files' = files
                /\ IF b.status = 0 THEN success
                   ELSE IF exists THEN success
                   ELSE failure("tar failed") /\ bk'[p].detect = b.detect]_vars

\* the archiver ended with a nonzero exit code and left a file, no cancellation
\* was pending, and the directory loop went on to the digest of that file
C19_Witness ==
    \E p \in Procs :
       /\ bk[p].pc = "post"
       /\ bk[p].ctx = "dir"
       /\ ~BACKUP_CANCELLED
       /\ FileExists(files[bk[p].ts], bk[p].target)
       /\ files[bk[p].ts][bk[p].target] = "partial"

(***************************************************************************)
(* Invocations of create_backup that overlap in time: the command is async, *)
(* each invocation is a task of its own, and nothing in create_backup       *)
(* waits for another invocation to end.                                     *)
(***************************************************************************)
\* the invocations that may be in progress together
Overlapping == 1..MaxOverlap

InitOverlap ==
    /\ InitStatics
    /\ InitHost
    /\ bk = [p \in Overlapping |-> IdleBk]
    /\ child = [p \in Overlapping |-> NoChild]
    /\ data_dirs = {}
    /\ files = [t \in Stamps |-> NoFiles]
    /\ metadata = [t \in Stamps |-> NoManifest]
    /\ latest = NoLatest
    /\ inv_dirs = {}
    /\ tmp_files = {}

\* the configurations of the overlapping invocations: at most one path
OverlapDirLists == {ds \in DirLists : Len(ds) <= 1}

\* the steps of the directory loop of create_backup, create_tar_gz included
ArchiveStep(p) ==
    \/ LoopHead(p)
    \/ TgzSpawn(p)
    \/ TgzStorePid(p)
    \/ ChildExit(p)
    \/ TgzWait(p)
    \/ TgzClearPid(p)
    \/ TgzCheck(p)
    \/ PostArchive(p)

\* the invocations up to the end of their directory loops, and cancel_backup
NextOverlap ==
    \/ \E p \in DOMAIN bk :
          \/ \E ds \in OverlapDirLists : nruns < MaxOverlap /\ BeginBackup(p, ds)
          \/ ArchiveStep(p)
    \/ CancelStep

SpecOverlap == InitOverlap /\ [][NextOverlap]_vars

\* the archivers in flight: spawned by create_tar_gz and not yet awaited
InFlight == {p \in DOMAIN child : child[p].st # "none"}

\* C18: at every moment at most one archiver spawned by create_tar_gz is in
\* flight, also when two invocations of create_backup overlap in time.
C18_AtMostOneArchiver == Cardinality(InFlight) <= 1

(***************************************************************************)
(* The package list of a restore.                                           *)
(***************************************************************************)
\* the package list names no package, cask or tap
NoPackageEntries == \A j \in 1..Len(brewfile) : brewfile[j].kind = "mas"

\* the turn of restore_items is about the homebrew-packages item of the manifest,
\* whose archive holds a package list without brew, cask or tap lines
EmptyPackageListTurn ==
    LET k == find_item(rs.meta, Str_homebrew_packages)
        f == files[rs.ts]
    IN  /\ RestoreTurn
        /\ rs.items[rs.i] = Str_homebrew_packages
        /\ k # 0
        /\ FileExists(f, rs.meta[k].archive)
        /\ f[rs.meta[k].archive] = "gz:brew"
        /\ NoPackageEntries

\* C21: when restore_items restores the homebrew-packages item and the package
\* list in its archive has no brew, cask or tap line, "brew bundle" is not run
\* and nothing is installed; unless unpacking or reading the list failed (an
\* error entry for the item), the item is recorded as restored with the note
\* of 0 newly installed.
C21_EmptyPackageListInstallsNothing ==
    [][EmptyPackageListTurn
         => /\ rs'.bundles = rs.bundles
            /\ installed' = installed
            /\ rs'.skipped = rs.skipped
            /\ \/ ErrorForCurrentOnly
               \/ /\ rs'.errors = rs.errors
                  /\ rs'.restored
                       = Append(rs.restored, Entry(rs.i, Str_homebrew_packages, "ok0"))]_vars

\* restore_items returned after it restored the homebrew-packages item from a
\* package list that holds an app-store line only: restored, no bulk install
C21_Witness ==
    /\ rs.pc = "idle" /\ rs.res.ok
    /\ brewfile # <<>> /\ NoPackageEntries
    /\ rs.bundles = 0
    /\ \E j \in 1..Len(rs.res.val.restored) :
          /\ rs.res.val.restored[j].item = Str_homebrew_packages
          /\ rs.res.val.restored[j].note = "ok0"

(***************************************************************************)
(* The installs of quick_restore_essentials.                                *)
(***************************************************************************)
\* the elements of a sequence
Elements(s) == {s[j] : j \in 1..Len(s)}

\* a turn of the loop over brews_to_install that runs "brew install"
QuickBrewTurn == qr.pc = "brews" /\ qr.k <= Len(qr.brews) /\ qr' # qr

\* a turn of the loop over casks_to_install that runs "brew install --cask"
QuickCaskTurn == qr.pc = "casks" /\ qr.k <= Len(qr.casks) /\ qr' # qr

\* C22: quick_restore_essentials runs an install only for a name that is in its
\* fixed list of essential packages (casks) and is the name of a brew (cask)
\* line of the package list of the backup; when the first cask install runs,
\* every package install has been attempted.
C22_QuickRestoreInstallsIntersection ==
    [][/\ QuickBrewTurn
          => /\ qr.brews[qr.k] \in Elements(essential_brews)
             /\ qr.brews[qr.k] \in names_of(brewfile, "brew")
       /\ QuickCaskTurn
          => /\ qr.casks[qr.k] \in Elements(essential_casks)
             /\ qr.casks[qr.k] \in names_of(brewfile, "cask")
             /\ qr.current >= Len(qr.brews)]_vars

(***************************************************************************)
(* restore_vscode_extensions: the extensions of the list are installed by   *)
(* threads, in chunks.                                                      *)
(***************************************************************************)
\* (a restore that starts the threads of all extensions at once)
next_chunk_end_all(done, total) == total

\* extensions_owned.chunks(MAX_PARALLEL_VSCODE): the last index of the chunk
\* that follows the first `done` extensions
next_chunk_end(done, total) ==
    IF done + MAX_PARALLEL_VSCODE < total THEN done + MAX_PARALLEL_VSCODE ELSE total

\* restore_vscode_extensions up to its chunk loop, called by restore_items for
\* the vscode-extensions item of the manifest of run ts: the archive is unpacked
\* to the scratch directory and the list is read; n: the non-empty lines of the list
ExtStart(ts) ==
    LET m == metadata[ts]
        k == find_item(m.items, Str_vscode_extensions)
        f == files[ts]
        have == FileExists(f, m.items[k].archive) /\ f[m.items[k].archive] = "gz:vscode"
        scratch == ScratchDir(Str_vscode_extensions)
    IN
    /\ Quiet
    /\ vx.n < MaxBatched
    /\ m # NoManifest
    /\ k # 0
    /\ \E io \in {"ok", "mkdir_err", "untar_err", "no_list", "read_err"}, n \in 0..MaxExts :
         /\ ~have => io # "ok"
         /\ io # "ok" => n = 0
         /\ vx' = IF io # "ok"
                  THEN [IdleVx EXCEPT !.n = vx.n + 1, !.res = Err(io)]
                  ELSE IF n = 0
                  THEN [IdleVx EXCEPT !.n = vx.n + 1, !.res = Ok(0)]
                  ELSE [IdleVx EXCEPT !.n = vx.n + 1, !.pc = "loop", !.total = n]
         /\ tmp_files' = IF io = "mkdir_err" THEN tmp_files
                         ELSE IF io = "ok" /\ n = 0 THEN tmp_files \ {scratch}
                         ELSE tmp_files \cup {scratch}
    /\ UNCHANGED <<bkvars, dl, mxvars, vfvars, rsvars, data_dirs, files, metadata, latest,
                   inv_dirs>>

\* for chunk in chunks: the next chunk is taken
ExtNextChunk ==
    /\ vx.pc = "loop"
    /\ vx.spawned < vx.total
    /\ vx' = [vx EXCEPT !.pc = "spawn",
                        !.chunk_end = next_chunk_end(vx.spawned, vx.total)]
    /\ UNCHANGED <<bkvars, dl, mxvars, vfvars, rsvars, fsvars>>

\* for ext in chunk: std::thread::spawn; after the last one the joins begin
ExtSpawn ==
    /\ vx.pc = "spawn"
    /\ vx' = IF vx.spawned < vx.chunk_end
             THEN [vx EXCEPT !.spawned = @ + 1, !.pending = @ \cup {vx.spawned + 1}]
             ELSE [vx EXCEPT !.pc = "join"]
    /\ UNCHANGED <<bkvars, dl, mxvars, vfvars, rsvars, fsvars>>

\* (a count of every install command that was run)
count_install_all(counter, result) == counter + 1

\* if let Ok(output) = result { if output.status.success() { counter.fetch_add(1) } }
count_install(counter, result) == IF result = "ok" THEN counter + 1 ELSE counter

\* one thread runs "code --install-extension" for its line and ends: the command
\* exits with success or with a failure, or the shell cannot be started
ExtWorker(k) ==
    /\ k \in vx.pending
    /\ \E result \in {"ok", "fail", "spawn_err"} :
         vx' = [vx EXCEPT !.pending = @ \ {k},
                          !.installed_counter = count_install(@, result),
                          !.commands = @ + 1,
                          !.exited_ok = IF result = "ok" THEN @ + 1 ELSE @]
    /\ UNCHANGED <<bkvars, dl, mxvars, vfvars, rsvars, fsvars>>

\* for handle in batch_handles { handle.join() }: every thread of the chunk has ended
ExtJoin ==
    /\ vx.pc = "join"
    /\ vx.pending = {}
    /\ vx' = [vx EXCEPT !.pc = "loop"]
    /\ UNCHANGED <<bkvars, dl, mxvars, vfvars, rsvars, fsvars>>

\* the chunks are done: the scratch directory is removed and the count returned,
\* an error when nothing was installed
ExtReturn ==
    /\ vx.pc = "loop"
    /\ vx.spawned >= vx.total
    /\ vx' = [vx EXCEPT !.pc = "idle",
                        !.res = IF vx.installed_counter = 0
                                THEN Err("Keine Extensions installiert")
                                ELSE Ok(vx.installed_counter)]
    /\ tmp_files' = tmp_files \ {ScratchDir(Str_vscode_extensions)}
    /\ UNCHANGED <<bkvars, dl, mxvars, vfvars, rsvars, data_dirs, files, metadata, latest,
                   inv_dirs>>

ExtStep ==
    \/ \E ts \in Times : ExtStart(ts)
    \/ ExtNextChunk
    \/ ExtSpawn
    \/ \E k \in vx.pending : ExtWorker(k)
    \/ ExtJoin
    \/ ExtReturn

\* the run directories verified and restored by threads: at most one item is
\* not intact
BatchKindLists ==
    {kinds \in KindLists : Cardinality({k \in 1..Len(kinds) : kinds[k] # "ok"}) <= 1}

\* the volume holds one run, with the list of extensions among its items; the
\* archive of the list is there or was lost
InitBatches ==
    /\ InitProgram
    /\ InitHost
    /\ data_dirs = {1}
    /\ inv_dirs = {1}
    /\ tmp_files = {}
    /\ latest = <<1>>
    /\ \E kinds \in BatchKindLists, lost \in BOOLEAN :
         LET item == ReservedItem(Str_vscode_extensions)
             f == KindFiles(kinds)
         IN
         /\ metadata = [t \in Stamps |->
                          IF t = 1
                          THEN BackupMetadata(1, [k \in 1..Len(kinds) |->
                                                    KindItem(k, kinds[k])]
                                                 \o <<item>>)
                          ELSE NoManifest]
         /\ files = [t \in Stamps |->
                       IF t # 1 THEN NoFiles
                       ELSE IF lost THEN f
                       ELSE WriteFile(f, item.archive,
                                      ReservedBytes(Str_vscode_extensions))]

\* the commands run so far
Batched == Len(vlog) + vx.n

\* one of the two commands is run
NextBatches ==
    \/ \E ts \in Times : Batched < MaxBatched /\ ParStart(ts)
    \/ ParSpawn
    \/ \E k \in pv.pending : ParWorker(k)
    \/ ParJoin
    \/ ParReturn
    \/ \E ts \in Times : Batched < MaxBatched /\ ExtStart(ts)
    \/ ExtNextChunk
    \/ ExtSpawn
    \/ \E k \in vx.pending : ExtWorker(k)
    \/ ExtJoin
    \/ ExtReturn

SpecBatches == InitBatches /\ [][NextBatches]_vars

\* the number of the chunk of the given size that holds index k
BatchOf(k, size) == (k - 1) \div size

\* C23: at most PARALLEL_VERIFY hashing threads of verify_backup_parallel and
\* at most MAX_PARALLEL_VSCODE install threads of restore_vscode_extensions
\* have been started and not ended; a thread is started only when every thread
\* still running is of its own chunk (the threads of the chunks before have
\* been joined); and either operation returns only when no thread is running
\* and a thread was started for every item.
C23_BatchedWorkers ==
    [][/\ Cardinality(pv'.pending) <= PARALLEL_VERIFY
       /\ Cardinality(vx'.pending) <= MAX_PARALLEL_VSCODE
       /\ \A k \in pv'.pending \ pv.pending :
             /\ pv.pc = "loop"
             /\ \A j \in pv.pending \cup pv'.pending :
                   BatchOf(j, PARALLEL_VERIFY) = BatchOf(k, PARALLEL_VERIFY)
             /\ \A j \in 1..Len(pv.items) :
                   BatchOf(j, PARALLEL_VERIFY) < BatchOf(k, PARALLEL_VERIFY)
                     => j <= pv.processed
       /\ \A k \in vx'.pending \ vx.pending :
             /\ vx.pc = "spawn"
             /\ k = vx.spawned + 1
             /\ \A j \in vx.pending :
                   BatchOf(j, MAX_PARALLEL_VSCODE) = BatchOf(k, MAX_PARALLEL_VSCODE)
       /\ (pv.pc # "idle" /\ pv'.pc = "idle")
          => pv.pending = {} /\ pv.processed = Len(pv.items)
       /\ (vx.pc # "idle" /\ vx'.pc = "idle")
          => vx.pending = {} /\ vx.spawned = vx.total]_vars

\* threads of the second chunk of extensions are running
C23_Witness ==
    /\ vx.spawned > MAX_PARALLEL_VSCODE
    /\ vx.pending # {}
    /\ \A k \in vx.pending : k > MAX_PARALLEL_VSCODE

(***************************************************************************)
(* Cancel requests and the runs they reach.                                 *)
(***************************************************************************)
\* the cancel requests issued since invocation p of create_backup started
\* (cancels0: the requests issued before its start)
CancelsDuring(p) == cn.n - bk[p].cancels0

\* C24: a run of create_backup ends with a cancellation outcome only if
\* cancel_backup was called while the run was in progress; a call made before
\* the run started does not end it.
C24_EarlierCancelDoesNotReachLaterRun ==
    [][\A p \in DOMAIN bk :
         (Returns(p) /\ bk'[p].outcome \in CancelOutcomes) => CancelsDuring(p) > 0]_vars

(***************************************************************************)
(* The pointer to the latest run and the run directories.                   *)
(***************************************************************************)
\* C25: whenever no command is running and latest.json exists, the run it names
\* has a data directory, and that directory holds a metadata.json.
C25_LatestNamesCompleteRun ==
    (Quiet /\ latest # NoLatest)
       => /\ latest[1] \in data_dirs
          /\ metadata[latest[1]] # NoManifest

(***************************************************************************)
(* The tracked process id and the archiver in flight.                       *)
(***************************************************************************)
\* no call of cancel_backup has loaded the id of the archiver of invocation p
NoCancelFor(p) ==
    /\ cn.pid # child[p].pid
    /\ \A s \in kill_log : s.pid # child[p].pid

\* C26: TAR_PID is nonzero only while an archiver is in flight, create_tar_gz
\* being about to store 0 once it has awaited it; and while create_tar_gz waits
\* for an archiver whose id no call of cancel_backup has loaded, TAR_PID is the
\* id of that archiver.
C26_TrackedIdFollowsChild ==
    /\ TAR_PID # 0
         => \E p \in DOMAIN bk :
               \/ child[p].st # "none" /\ child[p].pid = TAR_PID
               \/ bk[p].pc = "tgz_clear"
    /\ \A p \in DOMAIN bk :
         (bk[p].pc = "tgz_wait" /\ child[p].st # "none" /\ NoCancelFor(p))
            => TAR_PID = child[p].pid

\* C27: every terminate signal of cancel_backup goes to the id of an archiver
\* that is in flight when the signal is sent (spawned and not yet awaited by
\* create_tar_gz).
C27_SignalOnlyToArchiverInFlight == \A s \in kill_log : s.live

(***************************************************************************)
(* A cancel request between two archive steps.                              *)
(***************************************************************************)
\* invocation p takes one of the cancellation checks of the directory loop: at
\* the head of the loop, in create_tar_gz after the wait, or after the archive step
TakesCheck(p) ==
    /\ \/ bk[p].pc = "loop" /\ bk[p].idx <= Len(bk[p].dirs)
       \/ bk[p].pc \in {"tgz_check", "post"} /\ bk[p].ctx = "dir"
    /\ bk'[p].pc # bk[p].pc

\* a call of cancel_backup made during invocation p finds no id tracked while p
\* is in its directory loop with no archiver in flight
FindsNoId(p) ==
    /\ cn.pc = "load" /\ cn' # cn /\ TAR_PID = 0
    /\ InDirectoryLoop(p) /\ CancelsDuring(p) > 0

\* what holds of a step after a cancel request that found no id to signal, with
\* the errors the return of the run may carry
UntrackedCancelEndsIn(errors) ==
    \A p \in DOMAIN bk :
       /\ FindsNoId(p) => kill_log' = kill_log /\ cn'.pc = "idle" /\ bk'[p].untracked
       /\ bk[p].untracked
          => /\ TakesCheck(p) => Returns(p) /\ bk'[p].outcome \in CancelOutcomes
             /\ Returns(p) => bk'[p].outcome \in errors
             /\ metadata' = metadata
             /\ latest' = latest

C29_VerifyCountsAddUp ==
    \A j \in 1..Len(vlog) :
       vlog[j].res.ok
          => LET v == vlog[j].res.val IN
             /\ v.verified_files + Len(v.failed_files) = v.total_files
             /\ v.success <=> (v.verified_files = v.total_files)

(***************************************************************************)
(* Archive filenames within one manifest.                                   *)
(***************************************************************************)
\* C30: in the manifest a successful create_backup wrote, two items at distinct
\* positions never carry the same archive filename.
C30_DistinctArchiveNames ==
    [][\A p \in Procs :
         (Returns(p) /\ bk'[p].outcome = "Ok")
         => LET items == metadata'[bk[p].ts].items IN
            \A i, j \in 1..Len(items) :
               i # j => items[i].archive # items[j].archive]_vars

(***************************************************************************)
(* The extension of an archive filename and the codec of the archive.       *)
(***************************************************************************)
\* the name ends with the given extension
EndsWith(name, ext) ==
    /\ Len(name) >= Len(ext)
    /\ SubSeq(name, Len(name) - Len(ext) + 1, Len(name)) = ext

\* the codec that compressed an archive the program wrote: gzip for what
\* GzEncoder wrote, the fast codec for what tar wrote through zstd
CodecOf(bytes) ==
    IF bytes \in {"gz:~/n.t", "gz:brew", "gz:mas", "gz:vscode"} THEN "gzip"
    ELSE IF bytes \in {"tar:/a/Doc", "tar:/b/doc", "tar:cache", "tar:safari"}
         THEN "zstd" ELSE "none"

\* C31: in the manifest a successful create_backup wrote, an item whose archive
\* filename ends in .tar.zst names an archive the fast codec compressed, and an
\* item whose archive filename ends in .tar.gz names a gzip-compressed archive.
C31_ExtensionReflectsCodec ==
    [][\A p \in Procs :
         (Returns(p) /\ bk'[p].outcome = "Ok")
         => LET ts == bk[p].ts
                items == metadata'[ts].items IN
            \A k \in 1..Len(items) :
               LET a == items[k].archive IN
               FileExists(files'[ts], a)
                  => /\ EndsWith(a, Str_tar_zst) => CodecOf(files'[ts][a]) = "zstd"
                     /\ EndsWith(a, Str_tar_gz) => CodecOf(files'[ts][a]) = "gzip"]_vars

(***************************************************************************)
(* extract_tar_gz, one extractor process at a time.                         *)
(***************************************************************************)
Msg_exists == "Ziel existiert bereits und Ueberschreiben ist deaktiviert"
Msg_extract_failed == "Extraktion fehlgeschlagen"

\* an extractor process that was started, and how it ended: it exited with
\* success, exited with a failure, exited with a failure whose stderr contains
\* "exist", or could not be started
ExtractorRun(tool, status) == [tool |-> tool, status |-> status]

\* (an extract_tar_gz that unpacks over an existing target)
target_guard_none(overwrite, target_exists) == FALSE

\* if !overwrite && target.exists()
target_guard(overwrite, target_exists) == ~overwrite /\ target_exists

\* if !(overwrite == false && tar_stderr.contains("exist")): the failure of the
\* last tar is an error of extract_tar_gz
tar_failure_is_error(overwrite, status) == ~(~overwrite /\ status = "fail_exist")

\* extract_tar_gz starts: the parent directory is created, and the target is
\* looked at (a target that exists has a parent that exists; create_dir_all
\* fails only on a parent it has to create)
ExtractStart(overwrite, parent_exists, target_exists, mkdir_ok) ==
    /\ Quiet
    /\ ex.n < MaxExtracts
    /\ target_exists => parent_exists
    /\ parent_exists => mkdir_ok
    /\ LET e == [IdleEx EXCEPT !.n = ex.n + 1, !.overwrite = overwrite,
                               !.existed = target_exists]
       IN  ex' = IF ~mkdir_ok
                 THEN [e EXCEPT !.res = Err("Fehler beim Erstellen des Verzeichnisses")]
                 ELSE IF target_guard(overwrite, target_exists)
                 THEN [e EXCEPT !.res = Err(Msg_exists)]
                 ELSE [e EXCEPT !.pc = "ditto"]
    /\ UNCHANGED <<bkvars, fsvars, vfvars, rsvars, dl, vx, ms, progress_log>>

\* Command::new("ditto") .. .output(): success returns Ok(()), a ditto that
\* cannot be started returns the error
ExtractDitto ==
    /\ ex.pc = "ditto"
    /\ \E st \in {"ok", "fail", "fail_exist", "spawn_err"} :
         LET e == [ex EXCEPT !.runs = Append(@, ExtractorRun("ditto", st))]
         IN  ex' = CASE st = "ok" -> [e EXCEPT !.pc = "idle", !.res = Ok("()")]
                     [] st = "spawn_err" ->
                          [e EXCEPT !.pc = "idle", !.res = Err("ditto Fehler")]
                     [] OTHER -> [e EXCEPT !.pc = "which"]
    /\ UNCHANGED <<bkvars, fsvars, vfvars, rsvars, dl, vx, ms, progress_log>>

\* let zstd_available = Command::new("which").arg("zstd") ..
ExtractWhich ==
    /\ ex.pc = "which"
    /\ \E z \in BOOLEAN :
         ex' = [ex EXCEPT !.zstd_available = z,
                          !.pc = IF z THEN "tar_zstd" ELSE "tar_gzip"]
    /\ UNCHANGED <<bkvars, fsvars, vfvars, rsvars, dl, vx, ms, progress_log>>

\* tar --use-compress-program="zstd -d": Ok(o) with a failure goes on to gzip,
\* everything else is the result (other => other)
ExtractTarZstd ==
    /\ ex.pc = "tar_zstd"
    /\ \E st \in {"ok", "fail", "fail_exist", "spawn_err"} :
         LET e == [ex EXCEPT !.runs = Append(@, ExtractorRun("tar_zstd", st))]
         IN  ex' = CASE st = "ok" -> [e EXCEPT !.pc = "tar_check", !.last = st]
                     [] st = "spawn_err" ->
                          [e EXCEPT !.pc = "idle", !.res = Err("tar Fehler")]
                     [] OTHER -> [e EXCEPT !.pc = "tar_gzip"]
    /\ UNCHANGED <<bkvars, fsvars, vfvars, rsvars, dl, vx, ms, progress_log>>

\* tar -xzf (with -k when not overwriting), .map_err(|e| format!("tar Fehler: {}", e))?
ExtractTarGzip ==
    /\ ex.pc = "tar_gzip"
    /\ \E st \in {"ok", "fail", "fail_exist", "spawn_err"} :
         LET e == [ex EXCEPT !.runs = Append(@, ExtractorRun("tar_gzip", st))]
         IN  ex' = IF st = "spawn_err"
                   THEN [e EXCEPT !.pc = "idle", !.res = Err("tar Fehler")]
                   ELSE [e EXCEPT !.pc = "tar_check", !.last = st]
    /\ UNCHANGED <<bkvars, fsvars, vfvars, rsvars, dl, vx, ms, progress_log>>

\* if !tar_output.status.success() { .. return Err("Extraktion fehlgeschlagen") }; Ok(())
ExtractTarCheck ==
    /\ ex.pc = "tar_check"
    /\ ex' = IF ex.last # "ok" /\ tar_failure_is_error(ex.overwrite, ex.last)
             THEN [ex EXCEPT !.pc = "idle", !.res = Err(Msg_extract_failed)]
             ELSE [ex EXCEPT !.pc = "idle", !.res = Ok("()")]
    /\ UNCHANGED <<bkvars, fsvars, vfvars, rsvars, dl, vx, ms, progress_log>>

NextExtract ==
    \/ \E overwrite, parent_exists, target_exists, mkdir_ok \in BOOLEAN :
          ExtractStart(overwrite, parent_exists, target_exists, mkdir_ok)
    \/ ExtractDitto
    \/ ExtractWhich
    \/ ExtractTarZstd
    \/ ExtractTarGzip
    \/ ExtractTarCheck

SpecExtract == Init /\ [][NextExtract]_vars

\* C32: when extract_tar_gz returns success, one of the extractor processes it
\* started exited with success.
C32_SuccessNeedsAnExtractor ==
    (ex.pc = "idle" /\ ex.res.ok)
       => \E j \in 1..Len(ex.runs) : ex.runs[j].status = "ok"

\* the extractor process at position j of the run ended in a failure exit
FailedAt(j) == ex.runs[j].status \in {"fail", "fail_exist"}

\* C33: extract_tar_gz without overwrite on an existing target returns the
\* "already exists" error, which is not the extraction-failure error, and starts
\* no extractor.  Otherwise the first extractor it starts is ditto; tar is started
\* only after ditto exited with a failure; tar with zstd is started only second and
\* only when zstd is available; tar with gzip is started directly after ditto when
\* zstd is not available, and directly after a failed tar with zstd when it is.
C33_ExtractorOrder ==
    /\ Msg_exists # Msg_extract_failed
    /\ (ex.n > 0 /\ ~ex.overwrite /\ ex.existed)
          => ex.pc = "idle" /\ ex.res = Err(Msg_exists) /\ ex.runs = <<>>
    /\ ex.pc \notin {"idle", "ditto"} => Len(ex.runs) >= 1
    /\ \A j \in 1..Len(ex.runs) :
          LET r == ex.runs[j] IN
          /\ j = 1 <=> r.tool = "ditto"
          /\ j > 1 => FailedAt(1)
          /\ r.tool = "tar_zstd" => j = 2 /\ ex.zstd_available
          /\ r.tool = "tar_gzip"
                => IF ex.zstd_available
                   THEN j = 3 /\ ex.runs[2].tool = "tar_zstd" /\ FailedAt(2)
                   ELSE j = 2

\* a call went from ditto to tar with zstd to tar with gzip and returned
C33_Witness ==
    /\ ex.pc = "idle"
    /\ Len(ex.runs) = 3
    /\ ex.runs[3].tool = "tar_gzip"

(***************************************************************************)
(* The progress notifications of the sequential verification.               *)
(***************************************************************************)
\* the step is a sequential verification of a run that has a manifest
SeqVerified ==
    /\ Len(vlog') = Len(vlog) + 1
    /\ vlog'[Len(vlog')].mode = "seq"
    /\ metadata[vlog'[Len(vlog')].ts] # NoManifest

\* C38: a sequential verification emits one progress notification per manifest
\* item, in item order, the k-th with fraction k / total, whatever it found for
\* the item.
C38_OneProgressPerItem ==
    [][SeqVerified
         => LET ts == vlog'[Len(vlog')].ts
                n == Len(metadata[ts].items)
            IN  progress_log' = [k \in 1..n |-> Fraction(k, n)]]_vars

(***************************************************************************)
(* The count restore_vscode_extensions reports.                             *)
(***************************************************************************)
\* restore_vscode_extensions returns after its chunk loop
ExtReturns == vx.pc = "loop" /\ vx'.pc = "idle"

C37_AlreadyInstalledIsSkipped ==
    \A i \in qr.already :
       /\ \E j \in 1..Len(qr.skipped) : qr.skipped[j].i = i
       /\ \A j \in 1..Len(qr.restored) : qr.restored[j].i # i
       /\ \A j \in 1..Len(qr.errors) : qr.errors[j].i # i

(***************************************************************************)
(* The temp files of the inventory snapshots.                               *)
(***************************************************************************)
InventoryTemps == {"homebrew_packages.txt", "mas_apps.txt", "vscode_extensions.txt"}

\* C39: when create_backup returns, with success or with an error, the temp
\* directory holds none of the inventory temp files (no run before this one
\* left any).
C39_NoInventoryTempLeft ==
    [][\A p \in Procs :
         Returns(p) => tmp_files' \cap InventoryTemps = {}]_vars

(***************************************************************************)
(* restore_mas_apps: the missing apps are installed by a script opened in   *)
(* a terminal, whose completion marker the command waits for.               *)
(***************************************************************************)
Str_mas_prefix == <<"m", "a", "s", " ">>
Str_id_sep == <<"i", "d", ":", " ">>

\* an app of the store: its name and its id, as text
MasApp(name, id) == [name |-> name, id |-> id]

App_x == MasApp(<<"X">>, <<"1", "2">>)
App_y == MasApp(<<"Y">>, <<"1", "2", "3">>)
App_z == MasApp(<<"Z">>, <<"4">>)
App_w == MasApp(<<"W">>, <<"5">>)
App_v == MasApp(<<"V">>, <<"6">>)
App_grid == MasApp(<<"G", "r", "i", "d", ":", " ", "N">>, <<"7">>)
AppOrder == <<App_x, App_y, App_z, App_w, App_v, App_grid>>

\* a line of mas_apps.txt as the package list has it: mas "Name", id: 123
MasLine(app) ==
    Str_mas_prefix \o <<"\"">> \o app.name \o <<"\"", ",", " ">> \o Str_id_sep \o app.id

\* a line of the output of `mas list`: the id, then the name
ListLine(id, name) == id \o <<" ", " ">> \o name \o <<"\n">>

RECURSIVE Concat(_)
\* the texts of a sequence, one after the other
Concat(texts) == IF texts = <<>> THEN <<>> ELSE Head(texts) \o Concat(Tail(texts))

\* the output of `mas list` on a machine that has the given apps
mas_list(apps) == Concat([k \in 1..Len(apps) |-> ListLine(apps[k].id, apps[k].name)])

\* str::starts_with
starts_with(s, pat) == Len(s) >= Len(pat) /\ SubSeq(s, 1, Len(pat)) = pat

\* the first index from `from` on at which pat occurs in s, 0 when there is none
find(s, pat, from) ==
    LET I == {i \in from..(Len(s) - Len(pat) + 1) : SubSeq(s, i, i + Len(pat) - 1) = pat}
    IN  IF I = {} THEN 0 ELSE CHOOSE i \in I : \A j \in I : i <= j

\* line.split("id: ").nth(1): the text between the first occurrence of the
\* separator and the next one (or the end); none when the separator is absent
id_part(line) ==
    LET a == find(line, Str_id_sep, 1)
        st == a + Len(Str_id_sep)
        b == find(line, Str_id_sep, st)
    IN  IF a = 0 THEN [some |-> FALSE, text |-> <<>>]
        ELSE [some |-> TRUE,
              text |-> SubSeq(line, st, IF b = 0 THEN Len(line) ELSE b - 1)]

\* str::trim
trim(s) ==
    LET I == {i \in 1..Len(s) : s[i] \notin {" ", "\n"}}
    IN  IF I = {} THEN <<>>
        ELSE SubSeq(s, CHOOSE i \in I : \A j \in I : i <= j,
                       CHOOSE i \in I : \A j \in I : j <= i)

RECURSIVE missing_apps(_, _)
\* the loop over file_content.lines(): the ids of the "mas " lines that
\* installed_before does not contain
missing_apps(lines, installed_before) ==
    IF lines = <<>> THEN <<>>
    ELSE LET line == Head(lines)
             rest == missing_apps(Tail(lines), installed_before)
             part == id_part(line)
             app_id == trim(part.text)
         IN  IF line = <<>> \/ ~starts_with(line, Str_mas_prefix) THEN rest
             ELSE IF ~part.some THEN rest
             ELSE IF contains(installed_before, app_id) THEN rest
             ELSE <<app_id>> \o rest

\* the backed-up lists and the installed lists of the model
MasLists == {SubSeq(AppOrder, 1, n) : n \in 0..MaxApps} \cup {<<App_grid>>, <<App_y, App_x>>}
InstalledLists == {<<>>, <<App_x>>, <<App_y>>, <<App_y, App_z>>, AppOrder}

Marker == "mas_install_done.marker"
Script == "mas_install_parallel.sh"
IdsFile == "mas_app_ids.txt"

\* restore_mas_apps up to the launch of the script: the archive is unpacked to
\* the scratch directory, `mas list` is asked (a query that fails gives the
\* empty text), the list is read, the scratch directory is removed; with
\* something to install the old marker is removed and the ids are written
MasStart(apps, have, asked) ==
    LET scratch == ScratchDir(Str_mas_apps)
        installed_before == IF asked THEN mas_list(have) ELSE <<>>
        lines == [k \in 1..Len(apps) |-> MasLine(apps[k])]
        todo == missing_apps(lines, installed_before)
        m0 == [IdleMs EXCEPT !.n = ms.n + 1, !.listed = apps,
                             !.known = IF asked
                                       THEN {have[k].id : k \in 1..Len(have)} ELSE {}]
    IN
    /\ Quiet
    /\ ms.n < MaxMasRuns
    /\ \E io \in {"ok", "mkdir_err", "untar_err", "no_list", "read_err"} :
         /\ ms' = IF io # "ok" THEN [m0 EXCEPT !.res = Err(io)]
                  ELSE IF todo = <<>> THEN [m0 EXCEPT !.res = Ok(0)]
                  ELSE [m0 EXCEPT !.pc = "launch", !.apps_to_install = todo]
         /\ tmp_files' = IF io = "mkdir_err" THEN tmp_files
                         ELSE IF io # "ok" THEN tmp_files \cup {scratch}
                         ELSE IF todo = <<>> THEN tmp_files \ {scratch}
                         ELSE ((tmp_files \ {scratch}) \ {Marker}) \cup {IdsFile}
    /\ UNCHANGED <<bkvars, dl, vx, ex, progress_log, vfvars, rsvars, data_dirs, files,
                   metadata, latest, inv_dirs>>

\* the script is written and opened in the terminal
MasLaunch ==
    /\ ms.pc = "launch"
    /\ \E out \in {"ok", "write_err", "open_err"} :
         /\ ms' = CASE out = "write_err" ->
                         [ms EXCEPT !.pc = "idle",
                                    !.res = Err("Konnte Installations-Skript nicht erstellen")]
                    [] out = "open_err" ->
                         [ms EXCEPT !.pc = "idle",
                                    !.res = Err("Konnte Terminal nicht oeffnen")]
                    [] OTHER -> [ms EXCEPT !.pc = "wait", !.script = "running"]
         /\ tmp_files' = IF out = "write_err" THEN tmp_files ELSE tmp_files \cup {Script}
    /\ UNCHANGED <<bkvars, dl, vx, ex, progress_log, vfvars, rsvars, data_dirs, files,
                   metadata, latest, inv_dirs>>

\* the script (xargs -P MAX_PARALLEL_MAS): the install of the next id of the
\* file is started when fewer than MAX_PARALLEL_MAS are running
InstallerStart ==
    LET k == Cardinality(ms.started) + 1 IN
    /\ ms.script = "running"
    /\ k <= Len(ms.apps_to_install)
    /\ Cardinality(ms.started \ ms.ended) < MAX_PARALLEL_MAS
    /\ ms' = [ms EXCEPT !.started = @ \cup {k}]
    /\ UNCHANGED <<bkvars, dl, vx, ex, progress_log, vfvars, rsvars, fsvars>>

\* one `mas install` of the script ends, with success or not
InstallerEnd(k) ==
    /\ ms.script = "running"
    /\ k \in ms.started \ ms.ended
    /\ \E ok \in BOOLEAN :
         ms' = [ms EXCEPT !.ended = @ \cup {k},
                          !.succeeded = IF ok THEN @ \cup {k} ELSE @]
    /\ UNCHANGED <<bkvars, dl, vx, ex, progress_log, vfvars, rsvars, fsvars>>

\* echo "done" > marker, after xargs has ended; the script then waits for a key
InstallerDone ==
    /\ ms.script = "running"
    /\ ms.ended = 1..Len(ms.apps_to_install)
    /\ ms' = [ms EXCEPT !.script = "done"]
    /\ tmp_files' = tmp_files \cup {Marker}
    /\ UNCHANGED <<bkvars, dl, vx, ex, progress_log, vfvars, rsvars, data_dirs, files,
                   metadata, latest, inv_dirs>>

\* the terminal window is closed, or the script is ended from outside, before
\* it has written the marker
InstallerClosed ==
    /\ ms.script = "running"
    /\ ms' = [ms EXCEPT !.script = "closed"]
    /\ UNCHANGED <<bkvars, dl, vx, ex, progress_log, vfvars, rsvars, fsvars>>

\* loop { sleep(2 s); if marker_path.exists() { remove_file; break } }: a turn
\* that finds the marker (a turn that does not find it changes nothing)
MasPoll ==
    /\ ms.pc = "wait"
    /\ Marker \in tmp_files
    /\ ms' = [ms EXCEPT !.pc = "check"]
    /\ tmp_files' = tmp_files \ {Marker}
    /\ UNCHANGED <<bkvars, dl, vx, ex, progress_log, vfvars, rsvars, data_dirs, files,
                   metadata, latest, inv_dirs>>

\* `mas list` is asked again, the ids it contains are counted, the script and
\* the ids file are removed (the lines of the apps that were installed before
\* hold none of these ids: they are left out of the text)
MasCheck ==
    /\ ms.pc = "check"
    /\ \E asked \in BOOLEAN :
         LET n == Len(ms.apps_to_install)
             check == IF asked
                      THEN Concat([k \in 1..n |->
                                     IF k \in ms.succeeded
                                     THEN ListLine(ms.apps_to_install[k], <<"A">>)
                                     ELSE <<>>])
                      ELSE <<>>
             installed_count ==
                 Cardinality({k \in 1..n : contains(check, ms.apps_to_install[k])})
         IN  ms' = [ms EXCEPT !.pc = "idle", !.res = Ok(installed_count)]
    /\ tmp_files' = (tmp_files \ {Script}) \ {IdsFile}
    /\ UNCHANGED <<bkvars, dl, vx, ex, progress_log, vfvars, rsvars, data_dirs, files,
                   metadata, latest, inv_dirs>>

MasStep ==
    \/ \E apps \in MasLists, have \in InstalledLists, asked \in BOOLEAN :
          MasStart(apps, have, asked)
    \/ MasLaunch
    \/ MasPoll
    \/ MasCheck

NextMas ==
    \/ MasStep
    \/ InstallerStart
    \/ \E k \in ms.started : InstallerEnd(k)
    \/ InstallerDone
    \/ InstallerClosed

SpecMas == Init /\ [][NextMas]_vars

\* the steps of restore_mas_apps are taken when they can be; nothing is assumed
\* of the script in the terminal
SpecMasLive == SpecMas /\ WF_vars(MasStep)

\* C34: a restore of the mas-apps item that has started eventually returns.
C34_MasRestoreReturns == (ms.pc # "idle") ~> (ms.pc = "idle")

\* the ids of the apps of a list
IdsOf(apps) == {apps[k].id : k \in 1..Len(apps)}

\* C35: every id whose install the script has started is the id of an app of
\* the backed-up list and is not an id of the installed list; with every listed
\* id on the installed list no script is opened and 0 is returned; at most
\* MAX_PARALLEL_MAS installs are running.
C35_InstallsOnlyMissingListed ==
    /\ \A k \in ms.started :
          /\ ms.apps_to_install[k] \in IdsOf(ms.listed)
          /\ ms.apps_to_install[k] \notin ms.known
    /\ (ms.n > 0 /\ IdsOf(ms.listed) \subseteq ms.known)
          => ms.script = "none" /\ ms.pc = "idle" /\ (ms.res.ok => ms.res.val = 0)
    /\ Cardinality(ms.started \ ms.ended) <= MAX_PARALLEL_MAS

====
